---- MODULE Spec2Model ----
(***************************************************************************)
(* A model of the InferResets pass of the FIRRTL dialect                   *)
(* (lib/Dialect/FIRRTL/Transforms/InferResets.cpp): the reset map that     *)
(* coalesces connected field references into reset nets, and the pass      *)
(* pipeline built on it.                                                   *)
(***************************************************************************)
EXTENDS Naturals, Integers, Sequences, FiniteSets, TLC

\* ------------------------------------------------------------------ bounds

\* Number of distinct IR values offered to ResetMap::add in SpecMap.
NumFields == 3
\* Number of ResetMap::add calls in one behaviour of SpecMap.
MaxAdds == 3
\* Number of optional connects present in one inference circuit.
MaxConnects == 3

\* ----------------------------------------------------------------- helpers

Range(s) == {s[i] : i \in 1..Len(s)}

\* llvm::SetVector::insert: append unless already present.
SetVectorInsert(s, x) == IF x \in Range(s) THEN s ELSE Append(s, x)

\* llvm::SetVector::remove: drop the element, keep the order of the rest.
SetVectorRemove(s, x) == SelectSeq(s, LAMBDA y : y # x)

\* A null ResetNet pointer / a null Value.
NullNet == 0
NullValue == 0

\* ---------------------------------------------------------------- types

\* FIRRTL types. Ground types carry their name in g; "uint1" is UInt<1> and
\* "uint8" stands for an integer that is no reset type.
Ground(g) == [k |-> "ground", g |-> g]
ResetTy == Ground("reset")
AsyncTy == Ground("async")
UInt1Ty == Ground("uint1")
UInt8Ty == Ground("uint8")
ClockTy == Ground("clock")
Field(name, flip, type) == [name |-> name, flip |-> flip, type |-> type]
Bundle(e) == [k |-> "bundle", e |-> e]
Vector(t, n) == [k |-> "vector", t |-> t, n |-> n]

isGround(t) == t.k = "ground"
isResetTy(t) == isGround(t) /\ t.g = "reset"
isAsyncTy(t) == isGround(t) /\ t.g = "async"
isUIntTy(t) == isGround(t) /\ t.g \in {"uint1", "uint8"}
\* FIRRTLType::isResetType: abstract reset, async reset or UInt<1>.
isResetType(t) == isGround(t) /\ t.g \in {"reset", "async", "uint1"}

\* The flat field numbering of aggregate types: a type's own id is 0, its
\* sub-elements follow depth-first.
RECURSIVE getMaxFieldID(_)
RECURSIVE SumFieldIDs(_, _)
SumFieldIDs(e, n) ==
  IF n = 0 THEN 0 ELSE SumFieldIDs(e, n - 1) + getMaxFieldID(e[n].type) + 1
getMaxFieldID(t) ==
  IF t.k = "bundle" THEN SumFieldIDs(t.e, Len(t.e))
  ELSE IF t.k = "vector" THEN t.n * (getMaxFieldID(t.t) + 1)
  ELSE 0

\* BundleType::getFieldID / FVectorType::getFieldID, with 1-based index for
\* bundles (the sequence position) and 0-based index for vectors.
bundleFieldID(t, idx) == 1 + SumFieldIDs(t.e, idx - 1)
vectorFieldID(t, i) == 1 + i * (getMaxFieldID(t.t) + 1)

\* getIndexForFieldID: the sub-element that holds the given field id.
bundleIndexForFieldID(t, id) ==
  CHOOSE i \in 1..Len(t.e) :
    /\ bundleFieldID(t, i) <= id
    /\ id <= bundleFieldID(t, i) + getMaxFieldID(t.e[i].type)
vectorIndexForFieldID(t, id) ==
  CHOOSE i \in 0..(t.n - 1) :
    /\ vectorFieldID(t, i) <= id
    /\ id <= vectorFieldID(t, i) + getMaxFieldID(t.t)

\* BundleType::getElementIndex: position of a field name, 0 if absent.
getElementIndex(t, name) ==
  IF \E i \in 1..Len(t.e) : t.e[i].name = name
  THEN CHOOSE i \in 1..Len(t.e) : t.e[i].name = name
  ELSE 0

\* Whether the abstract reset type occurs anywhere in a type.
RECURSIVE containsReset(_)
containsReset(t) ==
  IF t.k = "bundle" THEN \E i \in 1..Len(t.e) : containsReset(t.e[i].type)
  ELSE IF t.k = "vector" THEN containsReset(t.t)
  ELSE isResetTy(t)

\* updateType: replace the leaf with the given field id by fieldType.
RECURSIVE updateType(_, _, _)
updateType(oldType, fieldID, fieldType) ==
  IF isGround(oldType) THEN fieldType
  ELSE IF oldType.k = "bundle"
  THEN LET index == bundleIndexForFieldID(oldType, fieldID)
       IN [oldType EXCEPT !.e[index].type =
             updateType(oldType.e[index].type,
                        fieldID - bundleFieldID(oldType, index), fieldType)]
  ELSE LET index == vectorIndexForFieldID(oldType, fieldID)
       IN [oldType EXCEPT !.t =
             updateType(oldType.t, fieldID - vectorFieldID(oldType, index),
                        fieldType)]

\* ------------------------------------------------------------- ResetMap

\* A freshly constructed ResetNet: no nodes, no drives, kind Uninferred.
EmptyNet == [nodes |-> <<>>, drives |-> <<>>, kind |-> "Uninferred"]

\* A freshly constructed (or cleared) ResetMap.
EmptyMap ==
  [nodes |-> <<>>, net |-> <<>>, nets |-> <<>>, unusedNets |-> <<>>,
   allocatedNets |-> <<>>]

\* ResetNet::clear applied to net n of map m.
netClear(m, n) == [m EXCEPT !.net[n] = EmptyNet]

\* ResetMap::getNode: the node of a field reference, created on first use
\* with the type seen at that moment and a null net.
getNode(m, value, type) ==
  IF value \in DOMAIN m.nodes THEN m
  ELSE [m EXCEPT !.nodes = (value :> [value |-> value, type |-> type,
                                       net |-> NullNet]) @@ m.nodes]

\* ResetMap::createNet: reuse the most recently abandoned net if there is
\* one, otherwise allocate. Returns the map and the net handed out.
createNet(m) ==
  IF m.unusedNets # <<>>
  THEN LET n == m.unusedNets[Len(m.unusedNets)]
       IN [map |-> [m EXCEPT !.unusedNets = SubSeq(m.unusedNets, 1,
                                                   Len(m.unusedNets) - 1),
                             !.nets = SetVectorInsert(m.nets, n)],
           net |-> n]
  ELSE LET n == Len(m.allocatedNets) + 1
       IN [map |-> [m EXCEPT !.net = m.net @@ (n :> EmptyNet),
                             !.allocatedNets = Append(m.allocatedNets, n),
                             !.nets = SetVectorInsert(m.nets, n)],
           net |-> n]

\* ResetMap::abandonNet. The removal from the live set is the argument of an
\* assert, so it is executed only in builds that keep assertions (nd = FALSE);
\* with NDEBUG the expression is compiled out.
abandonNet(m, nd, n) ==
  LET c == netClear(m, n)
      r == IF nd THEN c ELSE [c EXCEPT !.nets = SetVectorRemove(c.nets, n)]
  IN [r EXCEPT !.unusedNets = Append(r.unusedNets, n)]

\* A node joins a net: back-pointer and membership (lines 386-399 of add).
MutJoinNetNoInsert(m, f, n) == [m EXCEPT !.nodes[f].net = n]
joinNet(m, f, n) ==
  [m EXCEPT !.nodes[f].net = n,
            !.net[n].nodes = SetVectorInsert(m.net[n].nodes, f)]

\* The migration loop of add: every node of `other` is re-pointed at `net`
\* and inserted into its node set, in the order of other's node set.
RECURSIVE MigrateFrom(_, _, _, _)
MigrateFrom(m, net, ns, i) ==
  IF i > Len(ns) THEN m ELSE MigrateFrom(joinNet(m, ns[i], net), net, ns, i + 1)

MutMigrateNoInsert(m, net, other) ==
  [m EXCEPT !.nodes = [f \in DOMAIN m.nodes |->
                         IF f \in Range(m.net[other].nodes)
                         THEN [m.nodes[f] EXCEPT !.net = net]
                         ELSE m.nodes[f]]]
migrateNodes(m, net, other) == MigrateFrom(m, net, m.net[other].nodes, 1)

\* The last branch of add: keep the larger net (dst's on a tie), migrate the
\* nodes and the drives of the other one into it, abandon the other one.
MutMergeKeepsDst(m, nd, dnet, snet) ==
  LET m1 == migrateNodes(m, dnet, snet)
      m2 == [m1 EXCEPT !.net[dnet].drives = m1.net[dnet].drives \o m1.net[snet].drives]
  IN [map |-> abandonNet(m2, nd, snet), net |-> dnet]
mergeNets(m, nd, dnet, snet) ==
  LET swap == Len(m.net[dnet].nodes) < Len(m.net[snet].nodes)
      net == IF swap THEN snet ELSE dnet
      other == IF swap THEN dnet ELSE snet
      m1 == migrateNodes(m, net, other)
      m2 == [m1 EXCEPT !.net[net].drives = m1.net[net].drives \o m1.net[other].drives]
  IN [map |-> abandonNet(m2, nd, other), net |-> net]

\* ResetMap::add.
add(m, nd, dst, dstType, src, srcType, loc) ==
  LET m0 == getNode(getNode(m, dst, dstType), src, srcType)
      dn == m0.nodes[dst].net
      sn == m0.nodes[src].net
      r == IF dn = NullNet /\ sn = NullNet
           THEN LET c == createNet(m0)
                IN [map |-> joinNet(joinNet(c.map, dst, c.net), src, c.net),
                    net |-> c.net]
           ELSE IF dn = NullNet
           THEN [map |-> joinNet(m0, dst, sn), net |-> sn]
           ELSE IF sn = NullNet
           THEN [map |-> joinNet(m0, src, dn), net |-> dn]
           ELSE IF sn = dn
           THEN [map |-> m0, net |-> sn]
           ELSE mergeNets(m0, nd, dn, sn)
  IN [r.map EXCEPT !.net[r.net].drives =
        Append(r.map.net[r.net].drives, [dst |-> dst, src |-> src, loc |-> loc])]

\* ------------------------------------------------------------------- IR

\* An operation: its kind, operand and result values, its "name" attribute,
\* one further attribute (field name, index or target module), its
\* annotation classes and its location.
Op(kind, operands, results, name, attr, annos, loc) ==
  [kind |-> kind, operands |-> operands, results |-> results, name |-> name,
   attr |-> attr, annos |-> annos, loc |-> loc]

\* A module port: its block argument, name, direction, annotations, location.
Port(v, name, dir, annos, loc) ==
  [v |-> v, name |-> name, dir |-> dir, annos |-> annos, loc |-> loc]

\* Value::getDefiningOp: the op that has v among its results, 0 (null) for a
\* block argument.
getDefiningOp(I, v) ==
  IF \E o \in DOMAIN I.ops : v \in Range(I.ops[o].results)
  THEN CHOOSE o \in DOMAIN I.ops : v \in Range(I.ops[o].results)
  ELSE 0

isBlockArgument(I, v) == getDefiningOp(I, v) = 0

\* The kind of the op defining v, "" for a block argument.
defKind(I, v) ==
  IF isBlockArgument(I, v) THEN "" ELSE I.ops[getDefiningOp(I, v)].kind

\* The module that holds block argument v among its ports.
argOwner(I, v) ==
  CHOOSE mod \in DOMAIN I.ports : \E i \in 1..Len(I.ports[mod]) : I.ports[mod][i].v = v

\* BlockArgument::getArgNumber, 1-based.
getArgNumber(I, v) ==
  LET mod == argOwner(I, v)
  IN CHOOSE i \in 1..Len(I.ports[mod]) : I.ports[mod][i].v = v

\* Whether op o is (still) in a module body.
inBody(I, o) == \E mod \in DOMAIN I.body : o \in Range(I.body[mod])

\* The module whose body holds op o.
opOwner(I, o) == CHOOSE mod \in DOMAIN I.body : o \in Range(I.body[mod])

\* Value::getLoc.
valueLoc(I, v) ==
  IF isBlockArgument(I, v)
  THEN I.ports[argOwner(I, v)][getArgNumber(I, v)].loc
  ELSE I.ops[getDefiningOp(I, v)].loc

\* The use list of a value: (op, operand index) pairs, most recently created
\* use first. Ops are numbered in creation order and an op's operands are
\* linked in index order, so the list runs by descending op and operand.
RECURSIVE usesFrom(_, _, _, _)
usesFrom(I, v, o, i) ==
  IF o = 0 THEN <<>>
  ELSE IF i = 0
  THEN (IF o = 1 THEN <<>> ELSE usesFrom(I, v, o - 1, Len(I.ops[o - 1].operands)))
  ELSE (IF inBody(I, o) /\ I.ops[o].operands[i] = v
        THEN <<[op |-> o, operand |-> i]>> ELSE <<>>)
       \o usesFrom(I, v, o, i - 1)

getUses(I, v) ==
  LET n == Len(I.ops)
  IN IF n = 0 THEN <<>> ELSE usesFrom(I, v, n, Len(I.ops[n].operands))

\* Value::getUsers: the owner of every use, in use-list order.
getUsers(I, v) == [i \in 1..Len(getUses(I, v)) |-> getUses(I, v)[i].op]

\* circuit.walk: the ops of every module body, in circuit order.
RECURSIVE walkFrom(_, _, _)
walkFrom(I, mods, i) ==
  IF i > Len(mods) THEN <<>> ELSE I.body[mods[i]] \o walkFrom(I, mods, i + 1)

\* ---------------------------------------------------------- reset tracing

\* traceResets(dstType, dst, dstID, srcType, src, srcID, loc): structural
\* descent over a connection; returns the reset map with the drives added.
RECURSIVE traceTypes(_, _, _, _, _, _, _, _, _)
RECURSIVE traceBundle(_, _, _, _, _, _, _, _, _, _)
traceBundle(m, nd, dstType, dst, dstID, srcType, src, srcID, loc, dstIdx) ==
  IF dstIdx > Len(dstType.e) THEN m
  ELSE LET srcIdx == getElementIndex(srcType, dstType.e[dstIdx].name)
           dstElt == dstType.e[dstIdx]
           srcElt == srcType.e[srcIdx]
           m1 == IF srcIdx = 0 THEN m
                 ELSE IF dstElt.flip
                 THEN traceTypes(m, nd, srcElt.type, src,
                                 srcID + bundleFieldID(srcType, srcIdx),
                                 dstElt.type, dst,
                                 dstID + bundleFieldID(dstType, dstIdx), loc)
                 ELSE traceTypes(m, nd, dstElt.type, dst,
                                 dstID + bundleFieldID(dstType, dstIdx),
                                 srcElt.type, src,
                                 srcID + bundleFieldID(srcType, srcIdx), loc)
       IN traceBundle(m1, nd, dstType, dst, dstID, srcType, src, srcID, loc,
                      dstIdx + 1)
traceTypes(m, nd, dstType, dst, dstID, srcType, src, srcID, loc) ==
  IF dstType.k = "bundle"
  THEN traceBundle(m, nd, dstType, dst, dstID, srcType, src, srcID, loc, 1)
  ELSE IF dstType.k = "vector"
  THEN traceTypes(m, nd, dstType.t, dst, dstID + vectorFieldID(dstType, 0),
                  srcType.t, src, srcID + vectorFieldID(srcType, 0), loc)
  ELSE IF isResetTy(dstType) \/ isResetTy(srcType)
  THEN add(m, nd, <<dst, dstID>>, dstType, <<src, srcID>>, srcType, loc)
  ELSE m

\* traceResets(Value): the op defining the value, when it is a projection,
\* ties its result to the projected field of its input. Subindex and
\* subaccess both tie to element 0.
traceValue(I, m, nd, value) ==
  LET o == getDefiningOp(I, value)
      op == I.ops[o]
      inType == I.valType[op.operands[1]]
  IN IF o = 0 THEN m
     ELSE IF op.kind = "subfield"
     THEN LET index == getElementIndex(inType, op.attr)
          IN traceTypes(m, nd, I.valType[value], value, 0,
                        inType.e[index].type, op.operands[1],
                        bundleFieldID(inType, index), op.loc)
     ELSE IF op.kind \in {"subindex", "subaccess"}
     THEN traceTypes(m, nd, I.valType[value], value, 0, inType.t,
                     op.operands[1], vectorFieldID(inType, 0), op.loc)
     ELSE m

\* traceResets(dst, src, loc).
traceConnect(I, m, nd, dst, src, loc) ==
  traceTypes(traceValue(I, traceValue(I, m, nd, dst), nd, src), nd,
             I.valType[dst], dst, 0, I.valType[src], src, 0, loc)

\* traceResets(InstanceOp): every instance result is tied to the port of the
\* referenced module, the module port being the destination unless it is an
\* output. Nothing is done for an instance of an extmodule.
RECURSIVE traceInstanceFrom(_, _, _, _, _)
traceInstanceFrom(I, m, nd, o, i) ==
  LET op == I.ops[o]
      port == I.ports[op.attr][i]
      m1 == IF port.dir = "out"
            THEN traceConnect(I, m, nd, op.results[i], port.v, op.loc)
            ELSE traceConnect(I, m, nd, port.v, op.results[i], op.loc)
  IN IF i > Len(op.results) THEN m ELSE traceInstanceFrom(I, m1, nd, o, i + 1)

traceInstance(I, m, nd, o) ==
  IF I.ops[o].attr \notin DOMAIN I.body THEN m
  ELSE traceInstanceFrom(I, m, nd, o, 1)

\* The body of the walk callback of traceResets(CircuitOp) for one op.
traceOp(I, m, nd, o) ==
  LET op == I.ops[o]
  IN IF op.kind \in {"connect", "partialconnect"}
     THEN traceConnect(I, m, nd, op.operands[1], op.operands[2], op.loc)
     ELSE IF op.kind = "instance" THEN traceInstance(I, m, nd, o)
     ELSE m

\* --------------------------------------------------------- reset inference

Diag(msg, loc) == [msg |-> msg, loc |-> loc]

\* The error inferReset emits for a node that has no reset type: located at
\* the first drive that has the node as destination or as source.
RECURSIVE nonResetDiag(_, _, _)
nonResetDiag(drives, f, i) ==
  IF i > Len(drives) THEN Diag("unreachable", 0)
  ELSE IF drives[i].dst = f
  THEN Diag("reset network drives a non-reset type", drives[i].loc)
  ELSE IF drives[i].src = f
  THEN Diag("reset network driven with non-reset type", drives[i].loc)
  ELSE nonResetDiag(drives, f, i + 1)

NoVotes == [async |-> 0, sync |-> 0, invalid |-> 0]

\* FieldRef::getDefiningOp: the defining op of the value, and for a block
\* argument the module op that owns the block; here the kind of that op.
fieldDefKind(I, f) == IF isBlockArgument(I, f[1]) THEN "module" ELSE defKind(I, f[1])

\* The node loop of inferReset: the first node without a reset type ends it
\* with an error; otherwise async-reset-typed nodes, uint-typed nodes and
\* abstract-reset nodes defined by an invalid-value op are counted.
RECURSIVE MutTallyPortsVoteSync(_, _, _, _, _)
MutTallyPortsVoteSync(I, m, net, i, votes) ==
  LET f == net.nodes[i]
      node == m.nodes[f]
  IN IF i > Len(net.nodes) THEN [out |-> "votes", votes |-> votes]
     ELSE IF ~isResetType(node.type)
     THEN [out |-> "fail", diag |-> nonResetDiag(net.drives, f, 1)]
     ELSE IF isAsyncTy(node.type)
     THEN MutTallyPortsVoteSync(I, m, net, i + 1, [votes EXCEPT !.async = @ + 1])
     ELSE IF isUIntTy(node.type) \/ isBlockArgument(I, f[1])
     THEN MutTallyPortsVoteSync(I, m, net, i + 1, [votes EXCEPT !.sync = @ + 1])
     ELSE IF fieldDefKind(I, f) = "invalid"
     THEN MutTallyPortsVoteSync(I, m, net, i + 1, [votes EXCEPT !.invalid = @ + 1])
     ELSE MutTallyPortsVoteSync(I, m, net, i + 1, votes)
RECURSIVE MutTallySkipsTypeCheck(_, _, _, _, _)
MutTallySkipsTypeCheck(I, m, net, i, votes) ==
  LET f == net.nodes[i]
      node == m.nodes[f]
  IN IF i > Len(net.nodes) THEN [out |-> "votes", votes |-> votes]
     ELSE IF isAsyncTy(node.type)
     THEN MutTallySkipsTypeCheck(I, m, net, i + 1, [votes EXCEPT !.async = @ + 1])
     ELSE IF isUIntTy(node.type)
     THEN MutTallySkipsTypeCheck(I, m, net, i + 1, [votes EXCEPT !.sync = @ + 1])
     ELSE IF fieldDefKind(I, f) = "invalid"
     THEN MutTallySkipsTypeCheck(I, m, net, i + 1, [votes EXCEPT !.invalid = @ + 1])
     ELSE MutTallySkipsTypeCheck(I, m, net, i + 1, votes)
RECURSIVE tallyVotes(_, _, _, _, _)
tallyVotes(I, m, net, i, votes) ==
  LET f == net.nodes[i]
      node == m.nodes[f]
  IN IF i > Len(net.nodes) THEN [out |-> "votes", votes |-> votes]
     ELSE IF ~isResetType(node.type)
     THEN [out |-> "fail", diag |-> nonResetDiag(net.drives, f, 1)]
     ELSE IF isAsyncTy(node.type)
     THEN tallyVotes(I, m, net, i + 1, [votes EXCEPT !.async = @ + 1])
     ELSE IF isUIntTy(node.type)
     THEN tallyVotes(I, m, net, i + 1, [votes EXCEPT !.sync = @ + 1])
     ELSE IF fieldDefKind(I, f) = "invalid"
     THEN tallyVotes(I, m, net, i + 1, [votes EXCEPT !.invalid = @ + 1])
     ELSE tallyVotes(I, m, net, i + 1, votes)

\* The number of drives of the net that target field reference f.
driveCount(net, f) ==
  Cardinality({i \in 1..Len(net.drives) : net.drives[i].dst = f})

\* ResetNet::guessRoot for a net with nodes: the first node, in node order,
\* that no other node undercuts in the number of drives targeting it.
guessRoot(net) ==
  LET i == CHOOSE i \in 1..Len(net.nodes) :
             /\ \A j \in 1..Len(net.nodes) :
                  driveCount(net, net.nodes[i]) <= driveCount(net, net.nodes[j])
             /\ \A j \in 1..(i - 1) :
                  driveCount(net, net.nodes[j]) > driveCount(net, net.nodes[i])
  IN net.nodes[i]

\* The diagnostic inferReset emits at the guessed root. For an empty net
\* guessRoot finds no node: assert(lowest) aborts where assertions are kept,
\* and with assertions compiled out the null node is dereferenced, an
\* undefined read whose outcome `ub` selects: "crash", or "garbage" (the
\* diagnostic is emitted at an unknown location).
rootDiag(I, net, ub, msg) ==
  IF net.nodes = <<>>
  THEN (IF ub = "crash" THEN [out |-> "crash"]
        ELSE [out |-> "fail", diag |-> Diag(msg, 0)])
  ELSE [out |-> "fail", diag |-> Diag(msg, valueLoc(I, guessRoot(net)[1]))]

MutInferKindAlwaysSync(votes) == "Sync"
kindOfVotes(votes) == IF votes.async > 0 THEN "Async" ELSE "Sync"

\* InferResetsPass::inferReset on net n of map m.
MutInferMixedByMajority(I, m, n, ub) ==
  LET net == m.net[n]
      t == tallyVotes(I, m, net, 1, NoVotes)
  IN IF t.out # "votes" THEN t
     ELSE IF t.votes.async = 0 /\ t.votes.sync = 0 /\ t.votes.invalid = 0
     THEN rootDiag(I, net, ub, "reset network never driven with concrete type")
     ELSE [out |-> "ok",
           kind |-> IF t.votes.async >= t.votes.sync /\ t.votes.async > 0
                    THEN "Async" ELSE "Sync"]
inferReset(I, m, n, ub) ==
  LET net == m.net[n]
      t == tallyVotes(I, m, net, 1, NoVotes)
  IN IF t.out # "votes" THEN t
     ELSE IF t.votes.async = 0 /\ t.votes.sync = 0 /\ t.votes.invalid = 0
     THEN rootDiag(I, net, ub, "reset network never driven with concrete type")
     ELSE IF t.votes.async > 0 /\ t.votes.sync > 0
     THEN rootDiag(I, net, ub,
            "reset network simultaneously connected to async and sync resets")
     ELSE [out |-> "ok", kind |-> kindOfVotes(t.votes)]

\* ----------------------------------------------------------- type rewrite

\* The concrete type of an inferred net.
resetTypeOf(kind) == IF kind = "Async" THEN AsyncTy ELSE UInt1Ty

\* The values updateReset(net) rewrites directly: block arguments and the
\* results of wire, reg, regreset, instance and invalid-value ops.
isRoot(I, v) ==
  isBlockArgument(I, v)
    \/ defKind(I, v) \in {"wire", "reg", "regreset", "instance", "invalid"}

RECURSIVE insertAll(_, _, _)
insertAll(s, xs, i) ==
  IF i > Len(xs) THEN s ELSE insertAll(SetVectorInsert(s, xs[i]), xs, i + 1)

\* The node loop of updateReset(net): rewrites the field of every root node
\* and collects the users of changed values and the modules of changed
\* block arguments.
RECURSIVE updateRoots(_, _, _, _, _)
updateRoots(st, m, net, resetType, i) ==
  LET f == net.nodes[i]
      value == f[1]
      oldType == st.ir.valType[value]
      newType == updateType(oldType, f[2], resetType)
      st1 == IF ~isRoot(st.ir, value) \/ oldType = newType THEN st
             ELSE [ir |-> [st.ir EXCEPT !.valType[value] = newType],
                   worklist |-> insertAll(st.worklist, getUsers(st.ir, value), 1),
                   moduleWorklist |->
                     IF isBlockArgument(st.ir, value)
                     THEN st.moduleWorklist \cup {argOwner(st.ir, value)}
                     ELSE st.moduleWorklist]
  IN IF i > Len(net.nodes) THEN st ELSE updateRoots(st1, m, net, resetType, i + 1)

\* Which ops implement InferTypeOpInterface in the modelled IR.
hasInferTypeOpInterface(op) == op.kind \in {"subfield", "subindex", "subaccess"}

\* inferReturnTypes of a projection op from the current type of its input.
inferReturnType(I, op) ==
  LET inType == I.valType[op.operands[1]]
  IN IF op.kind = "subfield"
     THEN inType.e[getElementIndex(inType, op.attr)].type
     ELSE inType.t

\* One iteration of the worklist loop of updateReset(net).
MutWorklistAlwaysEnqueue(I, wl) ==
  LET o == wl[Len(wl)]
      rest == SubSeq(wl, 1, Len(wl) - 1)
      op == I.ops[o]
      res == op.results[1]
      newType == inferReturnType(I, op)
  IN IF ~hasInferTypeOpInterface(op)
     THEN [ir |-> I, worklist |-> rest]
     ELSE [ir |-> [I EXCEPT !.valType[res] = newType],
           worklist |-> insertAll(rest, getUsers(I, res), 1)]
worklistStep(I, wl) ==
  LET o == wl[Len(wl)]
      rest == SubSeq(wl, 1, Len(wl) - 1)
      op == I.ops[o]
      res == op.results[1]
      newType == inferReturnType(I, op)
  IN IF ~hasInferTypeOpInterface(op) \/ I.valType[res] = newType
     THEN [ir |-> I, worklist |-> rest]
     ELSE [ir |-> [I EXCEPT !.valType[res] = newType],
           worklist |-> insertAll(rest, getUsers(I, res), 1)]

\* The function type of a module rebuilt from its block arguments.
signatureOf(I, mod) == [i \in 1..Len(I.ports[mod]) |-> I.valType[I.ports[mod][i].v]]

\* The module loop of updateReset(net).
updateModuleTypes(I, mods) ==
  [I EXCEPT !.modSig = [mod \in DOMAIN I.modSig |->
                          IF mod \in mods THEN signatureOf(I, mod)
                          ELSE I.modSig[mod]]]

\* ------------------------------------------------------ reset annotations

\* The two annotation classes the pass consumes.
resetAnno == "sifive.enterprise.firrtl.FullAsyncResetAnnotation"
ignoreAnno == "sifive.enterprise.firrtl.IgnoreFullAsyncResetAnnotation"

isResetOrIgnore(a) == a \in {resetAnno, ignoreAnno}
hasAnno(annos, a) == \E i \in 1..Len(annos) : annos[i] = a
dropAnnos(annos) == SelectSeq(annos, LAMBDA a : ~isResetOrIgnore(a))

\* Annotations on the module op: Ignore sets the flag, FullAsyncReset is an
\* error; both are removed.
collectModuleAnnos(I, mod) ==
  [ir |-> [I EXCEPT !.modAnnos[mod] = dropAnnos(@)],
   ignore |-> hasAnno(I.modAnnos[mod], ignoreAnno),
   failed |-> hasAnno(I.modAnnos[mod], resetAnno),
   conflicting |-> IF hasAnno(I.modAnnos[mod], ignoreAnno)
                   THEN {<<ignoreAnno, I.modLoc[mod]>>} ELSE {},
   diags |-> IF hasAnno(I.modAnnos[mod], resetAnno)
             THEN <<Diag("'FullAsyncResetAnnotation' cannot target module",
                         I.modLoc[mod])>>
             ELSE <<>>]

\* The last element of a sequence of values, the null value if none.
lastOr(s, dflt) == IF s = <<>> THEN dflt ELSE s[Len(s)]

\* Annotations on the ports: FullAsyncReset designates the port (the last
\* one seen stays in `reset`), Ignore is an error; both are removed.
collectPortAnnos(I, mod) ==
  LET ps == I.ports[mod]
      marked == SelectSeq(ps, LAMBDA q : hasAnno(q.annos, resetAnno))
      bad == SelectSeq(ps, LAMBDA q : hasAnno(q.annos, ignoreAnno))
  IN [ir |-> [I EXCEPT !.ports[mod] =
                [i \in 1..Len(ps) |-> [ps[i] EXCEPT !.annos = dropAnnos(@)]]],
      reset |-> lastOr([i \in 1..Len(marked) |-> marked[i].v], NullValue),
      failed |-> bad # <<>>,
      conflicting |-> {<<resetAnno, marked[i].loc>> : i \in 1..Len(marked)},
      diags |-> [i \in 1..Len(bad) |->
                   Diag("'IgnoreFullAsyncResetAnnotation' cannot target port",
                        bad[i].loc)]]

\* Annotations on the ops of the body: on a wire or node FullAsyncReset
\* designates the result and Ignore is an error; on any other op both are
\* errors. Both classes are removed wherever they are found.
collectBodyAnnos(I, mod) ==
  LET os == I.body[mod]
      isWireOrNode(o) == I.ops[o].kind \in {"wire", "node"}
      marked == SelectSeq(os, LAMBDA o : isWireOrNode(o)
                                          /\ hasAnno(I.ops[o].annos, resetAnno))
      bad == SelectSeq(os, LAMBDA o :
               IF isWireOrNode(o) THEN hasAnno(I.ops[o].annos, ignoreAnno)
               ELSE \E i \in 1..Len(I.ops[o].annos) :
                      isResetOrIgnore(I.ops[o].annos[i]))
  IN [ir |-> [I EXCEPT !.ops = [o \in DOMAIN I.ops |->
                IF o \in Range(os) THEN [I.ops[o] EXCEPT !.annos = dropAnnos(@)]
                ELSE I.ops[o]]],
      reset |-> lastOr([i \in 1..Len(marked) |-> I.ops[marked[i]].results[1]],
                       NullValue),
      failed |-> bad # <<>>,
      conflicting |-> {<<resetAnno, I.ops[marked[i]].loc>> : i \in 1..Len(marked)},
      diags |-> [i \in 1..Len(bad) |->
                   Diag(IF isWireOrNode(bad[i])
                        THEN "'IgnoreFullAsyncResetAnnotation' cannot target wire/node"
                        ELSE "reset annotations must target module, port, or wire/node",
                        I.ops[bad[i]].loc)]]

\* InferResetsPass::collectAnnos(FModuleOp). Returns whether it succeeded,
\* the IR with the consumed annotations removed, the diagnostics, and the
\* entry to store in annotatedResets (entry = FALSE: nothing is stored).
MutCollectIgnoresBodyErrors(I, mod) ==
  LET a == collectModuleAnnos(I, mod)
      b == collectPortAnnos(a.ir, mod)
      c == collectBodyAnnos(b.ir, mod)
      reset == IF c.reset # NullValue THEN c.reset ELSE b.reset
      conflicting == a.conflicting \cup b.conflicting \cup c.conflicting
      none == [entry |-> FALSE, reset |-> NullValue]
  IN IF a.failed THEN [ok |-> FALSE, ir |-> a.ir, diags |-> a.diags] @@ none
     ELSE IF b.failed THEN [ok |-> FALSE, ir |-> b.ir, diags |-> b.diags] @@ none
     ELSE IF ~a.ignore /\ reset = NullValue
     THEN [ok |-> TRUE, ir |-> c.ir, diags |-> <<>>] @@ none
     ELSE IF Cardinality(conflicting) > 1
     THEN [ok |-> FALSE, ir |-> c.ir,
           diags |-> <<Diag("multiple reset annotations on module", I.modLoc[mod])>>]
          @@ none
     ELSE [ok |-> TRUE, ir |-> c.ir, diags |-> <<>>, entry |-> TRUE,
           reset |-> reset]
collectAnnosModule(I, mod) ==
  LET a == collectModuleAnnos(I, mod)
      b == collectPortAnnos(a.ir, mod)
      c == collectBodyAnnos(b.ir, mod)
      reset == IF c.reset # NullValue THEN c.reset ELSE b.reset
      conflicting == a.conflicting \cup b.conflicting \cup c.conflicting
      none == [entry |-> FALSE, reset |-> NullValue]
  IN IF a.failed THEN [ok |-> FALSE, ir |-> a.ir, diags |-> a.diags] @@ none
     ELSE IF b.failed THEN [ok |-> FALSE, ir |-> b.ir, diags |-> b.diags] @@ none
     ELSE IF c.failed THEN [ok |-> FALSE, ir |-> c.ir, diags |-> c.diags] @@ none
     ELSE IF ~a.ignore /\ reset = NullValue
     THEN [ok |-> TRUE, ir |-> c.ir, diags |-> <<>>] @@ none
     ELSE IF Cardinality(conflicting) > 1
     THEN [ok |-> FALSE, ir |-> c.ir,
           diags |-> <<Diag("multiple reset annotations on module", I.modLoc[mod])>>]
          @@ none
     ELSE [ok |-> TRUE, ir |-> c.ir, diags |-> <<>>, entry |-> TRUE,
           reset |-> reset]

\* ------------------------------------------------------ domain construction

\* A ResetDomain as buildDomains creates it: implementation details empty.
ResetDomain(isTop, reset) ==
  [isTop |-> isTop, reset |-> reset, existingValue |-> NullValue,
   existingPort |-> 0, newPortName |-> ""]

\* operator==(ResetDomain, ResetDomain).
domainEq(a, b) == a.isTop = b.isTop /\ a.reset = b.reset

\* An empty `domains` map: insertion order and the entries per module.
EmptyDomains == [order |-> <<>>, entries |-> <<>>]

\* instGraph[module]->instances(): the instance ops of the module body whose
\* target is a module with a body, in body order.
instancesOf(I, mod) ==
  SelectSeq(I.body[mod], LAMBDA o : I.ops[o].kind = "instance"
                                     /\ I.ops[o].attr \in DOMAIN I.body)

\* The domain buildDomains assembles for a module reached with parentReset.
MutAssembleNoInherit(annotated, mod, parentReset) ==
  IF mod \in DOMAIN annotated THEN ResetDomain(TRUE, annotated[mod])
  ELSE ResetDomain(FALSE, NullValue)
MutAssembleNeverTop(annotated, mod, parentReset) ==
  IF mod \in DOMAIN annotated THEN ResetDomain(FALSE, annotated[mod])
  ELSE ResetDomain(FALSE, parentReset)
assembleDomain(annotated, mod, parentReset) ==
  IF mod \in DOMAIN annotated THEN ResetDomain(TRUE, annotated[mod])
  ELSE ResetDomain(FALSE, parentReset)

\* domains[module] followed by the conditional push_back: the entry list of
\* the module is created on first access and grows only by a domain that
\* equals none of its entries.
MutRecordAlways(D, mod, domain, path) ==
  LET old == IF mod \in DOMAIN D.entries THEN D.entries[mod] ELSE <<>>
  IN [order |-> SetVectorInsert(D.order, mod),
      entries |-> (mod :> Append(old, [domain |-> domain, path |-> path]))
                    @@ D.entries]
recordDomain(D, mod, domain, path) ==
  LET old == IF mod \in DOMAIN D.entries THEN D.entries[mod] ELSE <<>>
      new == IF \A i \in 1..Len(old) : ~domainEq(old[i].domain, domain)
             THEN Append(old, [domain |-> domain, path |-> path])
             ELSE old
  IN [order |-> SetVectorInsert(D.order, mod),
      entries |-> (mod :> new) @@ D.entries]

\* The recursive calls buildDomains(FModuleOp) makes for the child
\* instances, as pending frames in call order.
MutChildFramesDropReset(I, mod, path, reset) ==
  LET insts == instancesOf(I, mod)
  IN [i \in 1..Len(insts) |->
        [module |-> I.ops[insts[i]].attr, path |-> Append(path, insts[i]),
         parentReset |-> NullValue]]
childFrames(I, mod, path, reset) ==
  LET insts == instancesOf(I, mod)
  IN [i \in 1..Len(insts) |->
        [module |-> I.ops[insts[i]].attr, path |-> Append(path, insts[i]),
         parentReset |-> reset]]

\* The conflict report of buildDomains(CircuitOp): one error per module
\* that has more than one entry.
domainConflicts(I, D) ==
  SelectSeq(D.order, LAMBDA mod : Len(D.entries[mod]) > 1)

\* -------------------------------------------------- implementation planning

\* getResetName: the port name of a block argument, the "name" attribute of
\* a wire or node otherwise.
getResetName(I, reset) ==
  IF isBlockArgument(I, reset)
  THEN I.ports[argOwner(I, reset)][getArgNumber(I, reset)].name
  ELSE I.ops[getDefiningOp(I, reset)].name

\* The do-while of determineImpl that appends _0, _1, ... until no port of
\* the module has the name.
MutUniquePortNameNoSearch(neededName, portNames, suffix) ==
  neededName \o "_" \o ToString(suffix)
RECURSIVE uniquePortName(_, _, _)
uniquePortName(neededName, portNames, suffix) ==
  LET newName == neededName \o "_" \o ToString(suffix)
  IN IF newName \in portNames
     THEN uniquePortName(neededName, portNames, suffix + 1)
     ELSE newName

\* InferResetsPass::determineImpl(FModuleOp, ResetDomain &).
MutDetermineNeverReuses(I, mod, domain) ==
  LET ps == I.ports[mod]
      neededName == getResetName(I, domain.reset)
      found == {i \in 1..Len(ps) : ps[i].name = neededName}
  IN IF domain.reset = NullValue THEN domain
     ELSE IF domain.isTop
     THEN [domain EXCEPT !.existingValue = domain.reset,
                         !.existingPort =
                            IF isBlockArgument(I, domain.reset)
                            THEN getArgNumber(I, domain.reset) ELSE 0]
     ELSE IF found # {}
     THEN [domain EXCEPT !.newPortName =
             uniquePortName(neededName, {ps[i].name : i \in 1..Len(ps)}, 0)]
     ELSE [domain EXCEPT !.newPortName = neededName]
determineImplModule(I, mod, domain) ==
  LET ps == I.ports[mod]
      neededName == getResetName(I, domain.reset)
      neededType == I.valType[domain.reset]
      found == {i \in 1..Len(ps) : ps[i].name = neededName}
      portIt == CHOOSE i \in found : \A j \in found : i <= j
  IN IF domain.reset = NullValue THEN domain
     ELSE IF domain.isTop
     THEN [domain EXCEPT !.existingValue = domain.reset,
                         !.existingPort =
                            IF isBlockArgument(I, domain.reset)
                            THEN getArgNumber(I, domain.reset) ELSE 0]
     ELSE IF found # {} /\ I.valType[ps[portIt].v] = neededType
     THEN [domain EXCEPT !.existingValue = ps[portIt].v,
                         !.existingPort = portIt]
     ELSE IF found # {}
     THEN [domain EXCEPT !.newPortName =
             uniquePortName(neededName, {ps[i].name : i \in 1..Len(ps)}, 0)]
     ELSE [domain EXCEPT !.newPortName = neededName]

\* The domain determineImpl and implementAsyncReset use for a module: the
\* last entry of its list.
lastDomain(D, mod) == D.entries[mod][Len(D.entries[mod])].domain

setLastDomain(D, mod, domain) ==
  [D EXCEPT !.entries[mod][Len(D.entries[mod])].domain = domain]

\* --------------------------------------------------------- materialization

\* Creating an op with one result in front of op `before` of module mod:
\* the op gets the next op number, its result the next value number.
createOpBefore(I, mod, before, kind, operands, type, name, attr) ==
  LET o == Len(I.ops) + 1
      v == I.nextVal
      pos == CHOOSE i \in 1..Len(I.body[mod]) : I.body[mod][i] = before
  IN [I EXCEPT !.ops = Append(@, Op(kind, operands, <<v>>, name, attr, <<>>,
                                    I.ops[before].loc)),
               !.valType = (v :> type) @@ @,
               !.nextVal = v + 1,
               !.body[mod] = SubSeq(@, 1, pos - 1) \o <<o>>
                               \o SubSeq(@, pos, Len(@))]

\* The value createOpBefore hands out.
createdValue(I) == I.nextVal

\* Operation::erase: the op leaves its block.
eraseOp(I, mod, o) == [I EXCEPT !.body[mod] = SetVectorRemove(@, o)]

\* Creating a connect in front of op `before` of module mod.
createConnectBefore(I, mod, before, dst, src) ==
  LET o == Len(I.ops) + 1
      pos == CHOOSE i \in 1..Len(I.body[mod]) : I.body[mod][i] = before
  IN [I EXCEPT !.ops = Append(@, Op("connect", <<dst, src>>, <<>>, "", "", <<>>,
                                    I.ops[before].loc)),
               !.body[mod] = SubSeq(@, 1, pos - 1) \o <<o>>
                               \o SubSeq(@, pos, Len(@))]

\* The op kind that roots the zero value of a type.
zeroKind(type) ==
  IF type.k \in {"bundle", "vector"} THEN "wire"
  ELSE IF type.g = "clock" THEN "asclock"
  ELSE IF type.g = "async" THEN "asasyncreset"
  ELSE IF type.g \in {"uint1", "uint8"} THEN "constant"
  ELSE "invalid"

\* createZeroValue(builder, type, cache). Returns the IR, the zero value and
\* the cache (a function from types to values).
RECURSIVE createZero(_, _, _, _, _)
RECURSIVE zeroFields(_, _, _, _, _, _, _)
RECURSIVE zeroElements(_, _, _, _, _, _, _)
zeroFields(I, mod, before, type, wire, cache, i) ==
  LET z == createZero(I, mod, before, type.e[i].type, cache)
      I1 == createOpBefore(z.ir, mod, before, "subfield", <<wire>>,
                           type.e[i].type, "", type.e[i].name)
      I2 == createConnectBefore(I1, mod, before, createdValue(z.ir), z.value)
  IN IF i > Len(type.e) THEN [ir |-> I, cache |-> cache]
     ELSE zeroFields(I2, mod, before, type, wire, z.cache, i + 1)
zeroElements(I, mod, before, type, wire, zero, i) ==
  LET I1 == createOpBefore(I, mod, before, "subindex", <<wire>>, type.t, "",
                           ToString(i))
      I2 == createConnectBefore(I1, mod, before, createdValue(I), zero)
  IN IF i >= type.n THEN I
     ELSE zeroElements(I2, mod, before, type, wire, zero, i + 1)
createZero(I, mod, before, type, cache) ==
  LET done(I1, v, c) == [ir |-> I1, value |-> v, cache |-> (type :> v) @@ c]
      nullBit == createZero(I, mod, before, UInt1Ty, cache)
      wired == createOpBefore(I, mod, before, "wire", <<>>, type, "", "")
      wire == createdValue(I)
      fields == zeroFields(wired, mod, before, type, wire, cache, 1)
      elt == createZero(wired, mod, before, type.t, cache)
  IN IF type \in DOMAIN cache
     THEN [ir |-> I, value |-> cache[type], cache |-> cache]
     ELSE IF type.k = "bundle" THEN done(fields.ir, wire, fields.cache)
     ELSE IF type.k = "vector"
     THEN done(zeroElements(elt.ir, mod, before, type, wire, elt.value, 0),
               wire, elt.cache)
     ELSE IF type.g \in {"clock", "async"}
     THEN done(createOpBefore(nullBit.ir, mod, before, zeroKind(type),
                              <<nullBit.value>>, type, "", ""),
               createdValue(nullBit.ir), nullBit.cache)
     ELSE done(createOpBefore(I, mod, before, zeroKind(type), <<>>, type, "", ""),
               createdValue(I), cache)

\* createZeroValue(builder, type): with an empty cache.
createZeroValue(I, mod, before, type) == createZero(I, mod, before, type, <<>>)

\* The type of the projection an op of the given kind and attribute makes
\* of a value of type t.
projectedType(t, kind, attr) ==
  IF kind = "subfield" THEN t.e[getElementIndex(t, attr)].type ELSE t.t

\* insertResetMux. The loop runs over the use list of the target as it is
\* when the loop starts. Rewriting the source operand of a connect re-links
\* that operand into the use list of the new mux; when that operand is the
\* use the loop stands on (the connect's source is the target itself), the
\* iterator continues in the mux's list, which has no further entry, and
\* the loop ends.
RECURSIVE insertResetMux(_, _, _, _, _)
RECURSIVE muxLoop(_, _, _, _, _, _, _, _)
muxLoop(I, mod, target, reset, resetValue, uses, i, used) ==
  LET u == uses[i]
      op == I.ops[u.op]
      withMux == createOpBefore(I, mod, u.op, "mux",
                                <<reset, resetValue, op.operands[2]>>,
                                I.valType[op.operands[2]], "", "")
      muxed == [withMux EXCEPT !.ops[u.op].operands[2] = createdValue(I)]
      withSub == createOpBefore(I, mod, u.op, op.kind,
                   IF op.kind = "subaccess" THEN <<resetValue, op.operands[2]>>
                   ELSE <<resetValue>>,
                   projectedType(I.valType[resetValue], op.kind, op.attr),
                   "", op.attr)
      subOp == Len(I.ops) + 1
      inner == insertResetMux(withSub, mod, op.results[1], reset,
                              createdValue(I))
  IN IF i > Len(uses) THEN [ir |-> I, used |-> used]
     ELSE IF op.operands[u.operand] # target
     THEN muxLoop(I, mod, target, reset, resetValue, uses, i + 1, used)
     ELSE IF op.kind \in {"connect", "partialconnect"}
     THEN (IF op.operands[1] # target
           THEN muxLoop(I, mod, target, reset, resetValue, uses, i + 1, used)
           ELSE IF u.operand = 2
           THEN [ir |-> muxed, used |-> TRUE]
           ELSE muxLoop(muxed, mod, target, reset, resetValue, uses, i + 1, TRUE))
     ELSE IF op.kind \in {"subfield", "subindex", "subaccess"}
     THEN (IF inner.used
           THEN muxLoop(inner.ir, mod, target, reset, resetValue, uses, i + 1, TRUE)
           ELSE muxLoop(eraseOp(inner.ir, mod, subOp), mod, target, reset,
                        resetValue, uses, i + 1, used))
     ELSE muxLoop(I, mod, target, reset, resetValue, uses, i + 1, used)
insertResetMux(I, mod, target, reset, resetValue) ==
  muxLoop(I, mod, target, reset, resetValue, getUses(I, target), 1, FALSE)

\* implementAsyncReset(Operation *) for an instance op.
implInstance(st, D, mod, o, actualReset) ==
  LET I == st.ir
      op == I.ops[o]
      domain == lastDomain(D, op.attr)
      fresh == I.nextVal
      no == Len(I.ops) + 1
      rebuilt ==
        LET I1 == createOpBefore(I, mod, o, "instance", <<>>,
                                 I.valType[actualReset], op.name, op.attr)
        IN [I1 EXCEPT !.ops[no].results = <<fresh>> \o op.results,
                      !.ops[no].annos = op.annos,
                      !.ops[o].results = <<>>]
  IN IF op.attr \notin DOMAIN D.entries THEN st
     ELSE IF domain.reset = NullValue THEN st
     ELSE IF domain.newPortName # ""
     THEN [ir |-> rebuilt, deleteOps |-> Append(st.deleteOps, o),
           connects |-> Append(st.connects, <<fresh, actualReset>>)]
     ELSE IF domain.existingPort # 0
     THEN [st EXCEPT !.connects =
             Append(@, <<op.results[domain.existingPort], actualReset>>)]
     ELSE st

\* implementAsyncReset(Operation *) for a register without reset: a reset
\* register takes its place (and, here, its result value, which stands for
\* replaceAllUsesWith), reset by actualReset to a zero of its type.
implReg(st, mod, o, actualReset) ==
  LET I == st.ir
      op == I.ops[o]
      type == I.valType[op.results[1]]
      z == createZeroValue(I, mod, o, type)
      I1 == z.ir
      zero == z.value
      I2 == createOpBefore(I1, mod, o, "regreset",
                           <<op.operands[1], actualReset, zero>>, type,
                           op.name, "")
      no == Len(I1.ops) + 1
  IN [st EXCEPT !.ir = [I2 EXCEPT !.ops[no].results = op.results,
                                  !.ops[no].annos = op.annos,
                                  !.ops[o].results = <<>>],
                !.deleteOps = Append(@, o)]

\* implementAsyncReset(Operation *) for a register with reset: untouched if
\* its reset signal is async; otherwise the sync reset is folded into muxes
\* and the register is reset by actualReset to zero.
implRegReset(st, mod, o, actualReset) ==
  LET I == st.ir
      op == I.ops[o]
      I1 == insertResetMux(I, mod, op.results[1], op.operands[2],
                           op.operands[3]).ir
      z == createZeroValue(I1, mod, o, I.valType[op.results[1]])
      I2 == z.ir
      zero == z.value
  IN IF isAsyncTy(I.valType[op.operands[2]]) THEN st
     ELSE [st EXCEPT !.ir = [I2 EXCEPT !.ops[o].operands[2] = actualReset,
                                       !.ops[o].operands[3] = zero]]

\* implementAsyncReset(Operation *, ...).
implOp(st, D, mod, o, actualReset) ==
  LET kind == st.ir.ops[o].kind
  IN IF kind = "instance" THEN implInstance(st, D, mod, o, actualReset)
     ELSE IF kind = "reg" THEN implReg(st, mod, o, actualReset)
     ELSE IF kind = "regreset" THEN implRegReset(st, mod, o, actualReset)
     ELSE st

RECURSIVE implWalk(_, _, _, _, _, _)
implWalk(st, D, mod, os, i, actualReset) ==
  IF i > Len(os) THEN st
  ELSE implWalk(implOp(st, D, mod, os[i], actualReset), D, mod, os, i + 1,
                actualReset)

RECURSIVE eraseAll(_, _, _, _)
eraseAll(I, mod, os, i) ==
  IF i > Len(os) THEN I ELSE eraseAll(eraseOp(I, mod, os[i]), mod, os, i + 1)

\* The connects appended at the end of the module body.
RECURSIVE appendConnects(_, _, _, _)
appendConnects(I, mod, cs, i) ==
  IF i > Len(cs) THEN I
  ELSE appendConnects(
         [I EXCEPT !.ops = Append(@, Op("connect", <<cs[i][1], cs[i][2]>>, <<>>,
                                        "", "reset", <<>>, valueLoc(I, cs[i][1]))),
                   !.body[mod] = Append(@, Len(I.ops) + 1)],
         mod, cs, i + 1)

\* module.insertPorts({{0, portInfo}}): a new input port of async reset
\* type in front of the port list; the function type follows.
insertResetPort(I, mod, name, loc) ==
  LET v == I.nextVal
      I1 == [I EXCEPT !.ports[mod] = <<Port(v, name, "in", <<>>, loc)>> \o @,
                      !.valType = (v :> AsyncTy) @@ @,
                      !.nextVal = v + 1]
  IN [I1 EXCEPT !.modSig[mod] = signatureOf(I1, mod)]

\* InferResetsPass::implementAsyncReset(FModuleOp, ResetDomain &).
implementModule(I, D, mod) ==
  LET domain == lastDomain(D, mod)
      I1 == IF domain.newPortName # ""
            THEN insertResetPort(I, mod, domain.newPortName,
                                 valueLoc(I, domain.reset))
            ELSE I
      actualReset == IF domain.newPortName # "" THEN I.nextVal
                     ELSE domain.existingValue
      st == implWalk([ir |-> I1, deleteOps |-> <<>>, connects |-> <<>>], D,
                     mod, I1.body[mod], 1, actualReset)
  IN IF domain.reset = NullValue THEN I
     ELSE appendConnects(eraseAll(st.ir, mod, st.deleteOps, 1), mod,
                         st.connects, 1)

\* ----------------------------------------------------------- input circuits

annoIf(cond, class) == IF cond THEN <<class>> ELSE <<>>

\* A connect op of the input, located at 100 + its op number.
ConnectOp(dst, src, o) == Op("connect", <<dst, src>>, <<>>, "", "", <<>>, 100 + o)

\* The optional connects of an inference circuit, as (dst, src) values.
InferCandidates ==
  << <<2, 1>>,   \* w <= rst
     <<2, 4>>,   \* w <= s
     <<3, 2>>,   \* x <= w
     <<3, 5>>,   \* x <= inv
     <<7, 4>>,   \* bun.a <= s
     <<9, 2>> >> \* c.crst <= w

\* The chosen candidates in candidate order.
chosenConnects(sel) ==
  SelectSeq([i \in 1..Len(InferCandidates) |-> i], LAMBDA i : i \in sel)

\* An inference circuit: module Top with a port rst (type tp), wires w and x
\* of abstract reset type, a source s of type ts (a reset type, or UInt<8>
\* for a connect that drives a reset from a value of no reset type), an invalid value
\* inv of abstract reset type, a wire bun of bundle type {a: reset,
\* flip b: reset} with the projection bun.a, and an instance c of module
\* Child, whose input port crst (type tc) drives its wire cw of abstract
\* reset type; plus the chosen connects among InferCandidates.
InferCircuit(tp, ts, tc, sel) ==
  LET bunTy == Bundle(<<Field("a", FALSE, ResetTy), Field("b", TRUE, ResetTy)>>)
      fixed == << Op("wire", <<>>, <<2>>, "w", "", <<>>, 101),
                  Op("wire", <<>>, <<3>>, "x", "", <<>>, 102),
                  Op("constant", <<>>, <<4>>, "s", "", <<>>, 103),
                  Op("invalid", <<>>, <<5>>, "", "", <<>>, 104),
                  Op("wire", <<>>, <<6>>, "bun", "", <<>>, 105),
                  Op("subfield", <<6>>, <<7>>, "", "a", <<>>, 106),
                  Op("instance", <<>>, <<9>>, "c", "Child", <<>>, 107),
                  Op("wire", <<>>, <<10>>, "cw", "", <<>>, 108),
                  ConnectOp(10, 8, 9) >>
      ch == chosenConnects(sel)
      extra == [i \in 1..Len(ch) |->
                  ConnectOp(InferCandidates[ch[i]][1], InferCandidates[ch[i]][2],
                            9 + i)]
  IN [modules |-> <<"Top", "Child">>,
      top |-> "Top",
      ports |-> [Top |-> <<Port(1, "rst", "in", <<>>, 201)>>,
                 Child |-> <<Port(8, "crst", "in", <<>>, 208)>>],
      body |-> [Top |-> <<1, 2, 3, 4, 5, 6, 7>> \o [i \in 1..Len(ch) |-> 9 + i],
                Child |-> <<8, 9>>],
      ops |-> fixed \o extra,
      valType |-> <<tp, ResetTy, ResetTy, ts, ResetTy, bunTy, ResetTy, tc, tc,
                    ResetTy>>,
      nextVal |-> 11,
      modAnnos |-> [Top |-> <<>>, Child |-> <<>>],
      modLoc |-> [Top |-> 301, Child |-> 302],
      modSig |-> [Top |-> <<tp>>, Child |-> <<tc>>]]

InferCircuits ==
  {InferCircuit(tp, ts, tc, sel) :
     tp \in {ResetTy, UInt1Ty, AsyncTy}, ts \in {UInt1Ty, AsyncTy, UInt8Ty},
     tc \in {ResetTy, UInt1Ty},
     sel \in {x \in SUBSET (1..Len(InferCandidates)) : Cardinality(x) <= MaxConnects}}

\* The instance graphs of the domain circuits: which module instantiates
\* which, as (parent, child) pairs in body order. In the fourth graph no
\* module instantiates B; in the fifth none instantiates A, which itself
\* instantiates B.
InstanceGraphs ==
  { << <<"Top", "A">>, <<"A", "B">> >>,
    << <<"Top", "A">>, <<"Top", "B">> >>,
    << <<"Top", "A">>, <<"A", "B">>, <<"Top", "B">> >>,
    << <<"Top", "A">> >>,
    << <<"Top", "B">>, <<"A", "B">> >> }

\* Where the reset annotations of a module of a domain circuit sit.
Placements == {"none", "ignore", "port", "wire", "module", "portAndWire"}

\* The connects that drive the registers of module B:
\*   "plain"      r <= d
\*   "self"       r <= r
\*   "plainSelf"  r <= d; r <= r
\*   "selfPlain"  r <= r; r <= d
\*   "field"      rb.a <= d   (rb a register of bundle type {a: uint8})
DrivePatterns == {"plain", "self", "plainSelf", "selfPlain", "field"}

drivesOf(pattern) ==
  IF pattern = "plain" THEN << <<16, 15>> >>
  ELSE IF pattern = "self" THEN << <<16, 16>> >>
  ELSE IF pattern = "plainSelf" THEN << <<16, 15>>, <<16, 16>> >>
  ELSE IF pattern = "selfPlain" THEN << <<16, 16>>, <<16, 15>> >>
  ELSE << <<19, 15>> >>

\* A domain circuit: modules Top, A and B, each with ports clk and rst and a
\* wire w of async reset type; A holds a register ra without reset, B a
\* data wire d, a register r with sync reset and reset value k, and a
\* register rb of bundle type with the same reset and reset value kb; the
\* sync reset of both is B's third port, which is named rst_0. The instances follow
\* graph g, the annotations the placements, the register connects of B the
\* pattern. rT and rA are the types of the rst ports of Top and A.
DomainCircuit(g, rT, rA, aTop, aA, aB, pattern) ==
  LET rbTy == Bundle(<<Field("a", FALSE, UInt8Ty)>>)
      onMod(a) == annoIf(a = "ignore", ignoreAnno) \o annoIf(a = "module", resetAnno)
      onPort(a) == annoIf(a \in {"port", "portAndWire"}, resetAnno)
      onWire(a) == annoIf(a \in {"wire", "portAndWire"}, resetAnno)
      fixed == << Op("wire", <<>>, <<3>>, "w", "", onWire(aTop), 101),
                  Op("wire", <<>>, <<6>>, "w", "", onWire(aA), 102),
                  Op("reg", <<4>>, <<7>>, "ra", "", <<>>, 103),
                  Op("wire", <<>>, <<12>>, "w", "", onWire(aB), 104),
                  Op("constant", <<>>, <<13>>, "k", "", <<>>, 105),
                  Op("zerowire", <<>>, <<14>>, "kb", "", <<>>, 106),
                  Op("wire", <<>>, <<15>>, "d", "", <<>>, 107),
                  Op("regreset", <<8, 10, 13>>, <<16>>, "r", "", <<>>, 108),
                  Op("regreset", <<8, 10, 14>>, <<18>>, "rb", "", <<>>, 109),
                  Op("subfield", <<18>>, <<19>>, "", "a", <<>>, 110) >>
      ds == drivesOf(pattern)
      conns == [i \in 1..Len(ds) |-> ConnectOp(ds[i][1], ds[i][2], 10 + i)]
      nc == 10 + Len(ds)
      insts == [i \in 1..Len(g) |->
                  Op("instance", <<>>,
                     IF g[i][2] = "A" THEN <<20 + 10 * i, 21 + 10 * i>>
                     ELSE <<20 + 10 * i, 21 + 10 * i, 22 + 10 * i>>,
                     "i" \o ToString(i), g[i][2], <<>>, 110 + nc + i)]
      instsIn(mod) == SelectSeq([i \in 1..Len(g) |-> nc + i],
                                LAMBDA o : g[o - nc][1] = mod)
      instTypes == [v \in UNION {Range(insts[i].results) : i \in 1..Len(g)} |->
                      LET i == (v - 20) \div 10
                          k == (v - 20) % 10
                      IN IF k = 0 THEN ClockTy
                         ELSE IF k = 2 THEN UInt1Ty
                         ELSE IF g[i][2] = "A" THEN rA ELSE AsyncTy]
  IN [modules |-> <<"Top", "A", "B">>,
      top |-> "Top",
      ports |-> [Top |-> <<Port(1, "clk", "in", <<>>, 201),
                           Port(2, "rst", "in", onPort(aTop), 202)>>,
                 A |-> <<Port(4, "clk", "in", <<>>, 204),
                         Port(5, "rst", "in", onPort(aA), 205)>>,
                 B |-> <<Port(8, "clk", "in", <<>>, 208),
                         Port(9, "rst", "in", onPort(aB), 209),
                         Port(10, "rst_0", "in", <<>>, 210)>>],
      body |-> [Top |-> <<1>> \o instsIn("Top"),
                A |-> <<2, 3>> \o instsIn("A"),
                B |-> <<4, 5, 6, 7, 8, 9, 10>> \o [i \in 1..Len(ds) |-> 10 + i]],
      ops |-> fixed \o conns \o insts,
      valType |-> instTypes @@
                  (1 :> ClockTy) @@ (2 :> rT) @@ (3 :> AsyncTy) @@
                  (4 :> ClockTy) @@ (5 :> rA) @@ (6 :> AsyncTy) @@
                  (7 :> UInt8Ty) @@
                  (8 :> ClockTy) @@ (9 :> AsyncTy) @@ (10 :> UInt1Ty) @@
                  (12 :> AsyncTy) @@ (13 :> UInt8Ty) @@ (14 :> rbTy) @@
                  (15 :> UInt8Ty) @@ (16 :> UInt8Ty) @@ (18 :> rbTy) @@
                  (19 :> UInt8Ty),
      nextVal |-> 60,
      modAnnos |-> [Top |-> onMod(aTop), A |-> onMod(aA), B |-> onMod(aB)],
      modLoc |-> [Top |-> 301, A |-> 302, B |-> 303],
      modSig |-> [Top |-> <<ClockTy, rT>>, A |-> <<ClockTy, rA>>,
                  B |-> <<ClockTy, AsyncTy, UInt1Ty>>]]

DomainCircuits ==
  {DomainCircuit(g, rT, rA, aTop, aA, aB, pattern) :
     g \in InstanceGraphs, rT \in {AsyncTy, UInt1Ty}, rA \in {AsyncTy, UInt1Ty},
     aTop \in {"none", "port", "wire", "ignore"}, aA \in Placements,
     aB \in {"none", "ignore", "wire"}, pattern \in DrivePatterns}

\* What an annotation target of an annotation circuit carries.
Marks == {"none", "reset", "ignore"}

marksOf(a) == annoIf(a = "reset", resetAnno) \o annoIf(a = "ignore", ignoreAnno)

\* An annotation circuit: one module Top with ports clk, p1 and p2, a wire
\* w and a register r, each of the module, p1, p2, w and r carrying what
\* aMod, a1, a2, aW and aR say. With sharedLoc every op and port has the
\* location of the module (as in an IR without location information);
\* otherwise all locations differ.
AnnoCircuit(aMod, a1, a2, aW, aR, sharedLoc) ==
  LET at(l) == IF sharedLoc THEN 301 ELSE l
  IN [modules |-> <<"Top">>,
      top |-> "Top",
      ports |-> [Top |-> <<Port(1, "clk", "in", <<>>, at(201)),
                           Port(2, "p1", "in", marksOf(a1), at(202)),
                           Port(3, "p2", "in", marksOf(a2), at(203))>>],
      body |-> [Top |-> <<1, 2>>],
      ops |-> << Op("wire", <<>>, <<4>>, "w", "", marksOf(aW), at(101)),
                 Op("reg", <<1>>, <<5>>, "r", "", marksOf(aR), at(102)) >>,
      valType |-> <<ClockTy, AsyncTy, AsyncTy, AsyncTy, UInt8Ty>>,
      nextVal |-> 6,
      modAnnos |-> [Top |-> marksOf(aMod)],
      modLoc |-> [Top |-> 301],
      modSig |-> [Top |-> <<ClockTy, AsyncTy, AsyncTy>>]]

AnnoCircuits ==
  {AnnoCircuit(aMod, a1, a2, aW, aR, sharedLoc) :
     aMod \in Marks, a1 \in Marks, a2 \in {"none", "reset"}, aW \in Marks,
     aR \in Marks, sharedLoc \in BOOLEAN}

\* The "uniform sync" circuit: Top has the ports clk and rst, rst of
\* abstract reset type and driven by the UInt<1> source s; its instance c of
\* Child gets clk and rst, and Child holds the register r without reset.
\* With annotated, Top's port rst carries FullAsyncResetAnnotation.
UniformSyncCircuit(annotated) ==
  [modules |-> <<"Top", "Child">>,
   top |-> "Top",
   ports |-> [Top |-> <<Port(1, "clk", "in", <<>>, 201),
                        Port(2, "rst", "in", annoIf(annotated, resetAnno), 202)>>,
              Child |-> <<Port(3, "clk", "in", <<>>, 203),
                          Port(4, "rst", "in", <<>>, 204)>>],
   body |-> [Top |-> <<1, 2, 3, 4, 5>>, Child |-> <<6>>],
   ops |-> << Op("constant", <<>>, <<5>>, "s", "", <<>>, 101),
              ConnectOp(2, 5, 2),
              Op("instance", <<>>, <<6, 7>>, "c", "Child", <<>>, 103),
              ConnectOp(6, 1, 4),
              ConnectOp(7, 2, 5),
              Op("reg", <<3>>, <<8>>, "r", "", <<>>, 106) >>,
   valType |-> <<ClockTy, ResetTy, ClockTy, ResetTy, UInt1Ty, ClockTy, ResetTy,
                 UInt8Ty>>,
   nextVal |-> 9,
   modAnnos |-> [Top |-> <<>>, Child |-> <<>>],
   modLoc |-> [Top |-> 301, Child |-> 302],
   modSig |-> [Top |-> <<ClockTy, ResetTy>>, Child |-> <<ClockTy, ResetTy>>]]

UniformSyncCircuits == {UniformSyncCircuit(annotated) : annotated \in BOOLEAN}

\* The projection ops.
ProjKinds == {"subfield", "subindex", "subaccess"}

\* The type a projection of the given kind is applied to when it yields
\* type: a bundle whose second field "a" is of that type, or a vector of two
\* elements of it.
projectedFrom(kind, type) ==
  IF kind = "subfield"
  THEN Bundle(<<Field("x", FALSE, UInt8Ty), Field("a", FALSE, type)>>)
  ELSE Vector(type, 2)

\* A projection op of the given kind on value v with result r: a subfield
\* names the field "a", a subindex the element 1, a subaccess takes the
\* element from the index value i.
ProjOp(kind, v, i, r, loc) ==
  Op(kind, IF kind = "subaccess" THEN <<v, i>> ELSE <<v>>, <<r>>, "",
     IF kind = "subfield" THEN "a" ELSE IF kind = "subindex" THEN "1" ELSE "",
     <<>>, loc)

\* A projection circuit: module Top with a port rst of concrete type tp, an
\* index port i and a wire w; the leaf of w that is of abstract reset type
\* is reached by a projection of kind `outer` and, unless inner is "none",
\* a second projection of kind `inner` on its result; the leaf is connected
\* to rst (toLeaf) or rst to the leaf.
ProjectionCircuit(outer, inner, toLeaf, tp) ==
  LET innerTy == IF inner = "none" THEN ResetTy ELSE projectedFrom(inner, ResetTy)
      outerTy == projectedFrom(outer, innerTy)
      conn(leaf, o) == IF toLeaf THEN ConnectOp(leaf, 1, o) ELSE ConnectOp(1, leaf, o)
  IN [modules |-> <<"Top">>,
      top |-> "Top",
      ports |-> [Top |-> <<Port(1, "rst", IF toLeaf THEN "in" ELSE "out", <<>>, 201),
                           Port(2, "i", "in", <<>>, 202)>>],
      body |-> [Top |-> IF inner = "none" THEN <<1, 2, 3>> ELSE <<1, 2, 3, 4>>],
      ops |-> IF inner = "none"
              THEN << Op("wire", <<>>, <<3>>, "w", "", <<>>, 101),
                      ProjOp(outer, 3, 2, 4, 102),
                      conn(4, 3) >>
              ELSE << Op("wire", <<>>, <<3>>, "w", "", <<>>, 101),
                      ProjOp(outer, 3, 2, 4, 102),
                      ProjOp(inner, 4, 2, 5, 103),
                      conn(5, 4) >>,
      valType |-> IF inner = "none" THEN <<tp, UInt8Ty, outerTy, innerTy>>
                  ELSE <<tp, UInt8Ty, outerTy, innerTy, ResetTy>>,
      nextVal |-> IF inner = "none" THEN 5 ELSE 6,
      modAnnos |-> [Top |-> <<>>],
      modLoc |-> [Top |-> 301],
      modSig |-> [Top |-> <<tp, UInt8Ty>>]]

ProjectionCircuits ==
  {ProjectionCircuit(outer, inner, toLeaf, tp) :
     outer \in ProjKinds, inner \in ProjKinds \cup {"none"}, toLeaf \in BOOLEAN,
     tp \in {AsyncTy, UInt1Ty}}

\* How a vector circuit connects its vector of resets.
VectorAccesses == {"subindex0", "subindex1", "subindex2", "subindex3", "subaccess", "whole"}

\* A vector circuit: module Top with a port rst of concrete type tp, an
\* index port i, a port pv that is a vector of four tp, and a wire v that is
\* a vector of four abstract resets. One connect drives v from a concrete
\* type, or the reverse (toVector false): through a subindex of v, through
\* a subaccess of v, or v as a whole with pv.
VectorCircuit(access, toVector, tp) ==
  LET vecTy == Vector(ResetTy, 4)
      conn(a, b, o) == IF toVector THEN ConnectOp(a, b, o) ELSE ConnectOp(b, a, o)
      dir == IF toVector THEN "in" ELSE "out"
  IN [modules |-> <<"Top">>,
      top |-> "Top",
      ports |-> [Top |-> <<Port(1, "rst", dir, <<>>, 201),
                           Port(2, "i", "in", <<>>, 202),
                           Port(3, "pv", dir, <<>>, 203)>>],
      body |-> [Top |-> IF access = "whole" THEN <<1, 2>> ELSE <<1, 2, 3>>],
      ops |-> IF access = "whole"
              THEN << Op("wire", <<>>, <<4>>, "v", "", <<>>, 101),
                      conn(4, 3, 2) >>
              ELSE << Op("wire", <<>>, <<4>>, "v", "", <<>>, 101),
                      IF access = "subaccess"
                      THEN Op("subaccess", <<4, 2>>, <<5>>, "", "", <<>>, 102)
                      ELSE Op("subindex", <<4>>, <<5>>, "",
                              IF access = "subindex0" THEN "0"
                              ELSE IF access = "subindex1" THEN "1"
                              ELSE IF access = "subindex2" THEN "2" ELSE "3",
                              <<>>, 102),
                      conn(5, 1, 3) >>,
      valType |-> IF access = "whole"
                  THEN <<tp, UInt8Ty, Vector(tp, 4), vecTy>>
                  ELSE <<tp, UInt8Ty, Vector(tp, 4), vecTy, ResetTy>>,
      nextVal |-> IF access = "whole" THEN 5 ELSE 6,
      modAnnos |-> [Top |-> <<>>],
      modLoc |-> [Top |-> 301],
      modSig |-> [Top |-> <<tp, UInt8Ty, Vector(tp, 4)>>]]

VectorCircuits ==
  {VectorCircuit(access, toVector, tp) :
     access \in VectorAccesses, toVector \in BOOLEAN, tp \in {AsyncTy, UInt1Ty}}

\* A bundle circuit: module Top with the ports arst (async reset) and srst
\* (UInt<1>) and a bundle of type {r1: reset, r2: reset}, which is the wire
\* bun itself or, with nested, the field "a" of the wire bun; r1 is driven
\* by arst and r2 by the port that `second` names; with linked a third
\* connect drives r2 from r1.
BundleCircuit(second, linked, nested) ==
  LET bunTy == Bundle(<<Field("r1", FALSE, ResetTy), Field("r2", FALSE, ResetTy)>>)
      n == IF nested THEN 1 ELSE 0
      \* the bundle of the two resets, and the leaves r1 and r2
      b == 3 + n
      r1 == 4 + n
      r2 == 5 + n
  IN [modules |-> <<"Top">>,
      top |-> "Top",
      ports |-> [Top |-> <<Port(1, "arst", "in", <<>>, 201),
                           Port(2, "srst", "in", <<>>, 202)>>],
      body |-> [Top |-> [i \in 1..(5 + n + IF linked THEN 1 ELSE 0) |-> i]],
      ops |-> << Op("wire", <<>>, <<3>>, "bun", "", <<>>, 101) >>
              \o (IF nested THEN <<Op("subfield", <<3>>, <<4>>, "", "a", <<>>, 106)>>
                  ELSE <<>>)
              \o << Op("subfield", <<b>>, <<r1>>, "", "r1", <<>>, 102),
                    Op("subfield", <<b>>, <<r2>>, "", "r2", <<>>, 103),
                    ConnectOp(r1, 1, 4 + n),
                    ConnectOp(r2, IF second = "srst" THEN 2 ELSE 1, 5 + n) >>
              \o (IF linked THEN <<ConnectOp(r2, r1, 6 + n)>> ELSE <<>>),
      valType |-> <<AsyncTy, UInt1Ty>>
                  \o (IF nested THEN <<projectedFrom("subfield", bunTy)>> ELSE <<>>)
                  \o <<bunTy, ResetTy, ResetTy>>,
      nextVal |-> 6 + n,
      modAnnos |-> [Top |-> <<>>],
      modLoc |-> [Top |-> 301],
      modSig |-> [Top |-> <<AsyncTy, UInt1Ty>>]]

BundleCircuits ==
  {BundleCircuit(second, linked, nested) :
     second \in {"arst", "srst"}, linked \in BOOLEAN, nested \in BOOLEAN}

\* -------------------------------------------------------------- variables

VARIABLES
  resetMap,         \* InferResetsPass::resetMap
  ndebug,           \* whether the build compiles assertions out (NDEBUG)
  calls,            \* the add calls made so far, in order (dst, src)
  circuit,          \* the circuit as handed to the pass
  ir,               \* the circuit as the pass has rewritten it so far
  pc,               \* where runOnOperation stands
  idx,              \* the position of the loop of the current phase
  diags,            \* the errors emitted so far
  signalled,        \* whether signalPassFailure has been called
  annotatedResets,  \* InferResetsPass::annotatedResets
  domains,          \* InferResetsPass::domains
  dfs,              \* the pending calls of buildDomains(FModuleOp)
  ran               \* the steps of the pass that have run

vars == <<resetMap, ndebug, calls, circuit, ir, pc, idx, diags, signalled,
          annotatedResets, domains, dfs, ran>>

passVars == <<circuit, ir, pc, idx, diags, signalled, annotatedResets, domains,
              dfs, ran>>

\* ------------------------------------------------- SpecMap: add in isolation

\* The field references offered to add: ground values, field-id 0.
MapFields == {<<v, 0>> : v \in 1..NumFields}

InitMap ==
  /\ resetMap = EmptyMap
  /\ ndebug \in BOOLEAN
  /\ calls = <<>>
  /\ circuit = <<>> /\ ir = <<>>
  /\ pc = "map" /\ idx = 0
  /\ diags = <<>> /\ signalled = FALSE
  /\ annotatedResets = <<>> /\ domains = EmptyDomains
  /\ dfs = <<>> /\ ran = {}

MapAdd ==
  /\ Len(calls) < MaxAdds
  /\ \E dst \in MapFields, src \in MapFields :
       /\ resetMap' = add(resetMap, ndebug, dst, ResetTy, src, ResetTy,
                          Len(calls) + 1)
       /\ calls' = Append(calls, <<dst, src>>)
  /\ UNCHANGED <<ndebug, passVars>>

NextMap == MapAdd

SpecMap == InitMap /\ [][NextMap]_vars

\* ------------------------------------------------------ claims on the map

\* The undirected edges of the add calls made so far.
DriveEdges ==
  {<<calls[i][1], calls[i][2]>> : i \in 1..Len(calls)} \cup
  {<<calls[i][2], calls[i][1]>> : i \in 1..Len(calls)}

RECURSIVE DriveClosure(_)
DriveClosure(S) ==
  LET T == S \cup {e[2] : e \in {d \in DriveEdges : d[1] \in S}}
  IN IF T = S THEN S ELSE DriveClosure(T)

\* b is reached from a along one or more drives.
ConnectedByDrives(a, b) ==
  b \in DriveClosure({e[2] : e \in {d \in DriveEdges : d[1] = a}})

\* The nets inference iterates: ResetMap::getNets.
LiveNets == Range(resetMap.nets)

NetNodes(n) == Range(resetMap.net[n].nodes)

InSameLiveNet(a, b) == \E n \in LiveNets : a \in NetNodes(n) /\ b \in NetNodes(n)

\* C1: after any sequence of add calls on an empty map, two field references
\* (equal or not) are in the node set of one live net iff a path of one or
\* more recorded drives, taken as undirected edges, connects them.
C1_UnionCorrect ==
  \A a \in MapFields, b \in MapFields :
    InSameLiveNet(a, b) <=> ConnectedByDrives(a, b)

\* C1 witness: a merge of two nets has happened and two references without a
\* direct drive between them share a live net.
C1_Witness ==
  /\ resetMap.unusedNets # <<>>
  /\ \E a \in MapFields, b \in MapFields :
       /\ a # b /\ <<a, b>> \notin DriveEdges
       /\ InSameLiveNet(a, b)

\* C2: every node's back-pointer names a live net whose node set holds the
\* node, and the node sets of two different live nets are disjoint.
C2_BackPointers ==
  /\ \A f \in DOMAIN resetMap.nodes :
       /\ resetMap.nodes[f].net \in LiveNets
       /\ f \in NetNodes(resetMap.nodes[f].net)
  /\ \A n1 \in LiveNets, n2 \in LiveNets :
       n1 # n2 => NetNodes(n1) \cap NetNodes(n2) = {}

\* C2 witness: after a merge in a build without assertions, with two live
\* nets and at least three nodes.
C2_Witness ==
  /\ ndebug
  /\ resetMap.unusedNets # <<>>
  /\ Cardinality(LiveNets) >= 2
  /\ Cardinality(DOMAIN resetMap.nodes) >= 3

\* C3: every live net has at least one node, and no net is both live and on
\* the free list.
C3_LiveNetsNonEmpty ==
  /\ \A n \in LiveNets : resetMap.net[n].nodes # <<>>
  /\ LiveNets \cap Range(resetMap.unusedNets) = {}

\* ------------------------------------------------------ Spec: the whole pass

\* traceResets(CircuitOp): the walk callback applied to every op in order.
RECURSIVE traceWalk(_, _, _, _, _)
traceWalk(I, m, nd, os, i) ==
  IF i > Len(os) THEN m ELSE traceWalk(I, traceOp(I, m, nd, os[i]), nd, os, i + 1)

\* The worklist loop of updateReset(net).
RECURSIVE runWorklist(_, _)
runWorklist(I, wl) ==
  IF wl = <<>> THEN I
  ELSE LET r == worklistStep(I, wl) IN runWorklist(r.ir, r.worklist)

\* InferResetsPass::updateReset(ResetNet *).
updateResetNet(I, m, n) ==
  LET net == m.net[n]
      st == updateRoots([ir |-> I, worklist |-> <<>>, moduleWorklist |-> {}],
                        m, net, resetTypeOf(net.kind), 1)
  IN updateModuleTypes(runWorklist(st.ir, st.worklist), st.moduleWorklist)

Init ==
  /\ circuit \in InferCircuits \cup DomainCircuits \cup AnnoCircuits
                 \cup UniformSyncCircuits \cup ProjectionCircuits
                 \cup VectorCircuits \cup BundleCircuits
  /\ ir = circuit
  /\ ndebug \in BOOLEAN
  /\ resetMap = EmptyMap
  /\ calls = <<>>
  /\ pc = "traceResets" /\ idx = 1
  /\ diags = <<>> /\ signalled = FALSE
  /\ annotatedResets = <<>> /\ domains = EmptyDomains
  /\ dfs = <<>> /\ ran = {}

\* traceResets(getOperation()); it cannot fail.
TraceResets ==
  /\ pc = "traceResets"
  /\ resetMap' = traceWalk(ir, resetMap, ndebug, walkFrom(ir, ir.modules, 1), 1)
  /\ pc' = "inferResets" /\ idx' = 1
  /\ ran' = ran \cup {"traceResets"}
  /\ UNCHANGED <<ndebug, calls, circuit, ir, diags, signalled, annotatedResets,
                 domains, dfs>>

\* What the loop of inferResets and its caller do with the result of one
\* inferReset: go on with the next net, or return failure, upon which
\* runOnOperationInner signals the failure and returns.
MutInferResetsIgnoresFailure(out, i) ==
  [pc |-> "inferResets", idx |-> i + 1, signalled |-> FALSE]
inferResetsNext(out, i) ==
  IF out = "ok" THEN [pc |-> "inferResets", idx |-> i + 1, signalled |-> FALSE]
  ELSE IF out = "fail" THEN [pc |-> "return", idx |-> i, signalled |-> TRUE]
  ELSE [pc |-> "crashed", idx |-> i, signalled |-> FALSE]

\* One iteration of the loop of inferResets. The undefined read of an empty
\* net's root can only happen where assertions are compiled out; where they
\* are kept the assertion aborts the process.
InferReset ==
  /\ pc = "inferResets" /\ idx <= Len(resetMap.nets)
  /\ \E ub \in (IF ndebug THEN {"crash", "garbage"} ELSE {"crash"}) :
       LET n == resetMap.nets[idx]
           r == inferReset(ir, resetMap, n, ub)
           next == inferResetsNext(r.out, idx)
       IN /\ resetMap' = IF r.out = "ok"
                         THEN [resetMap EXCEPT !.net[n].kind = r.kind]
                         ELSE resetMap
          /\ diags' = IF r.out = "fail" THEN Append(diags, r.diag) ELSE diags
          /\ pc' = next.pc
          /\ idx' = next.idx
          /\ signalled' = (signalled \/ next.signalled)
  /\ ran' = ran \cup {"inferReset"}
  /\ UNCHANGED <<ndebug, calls, circuit, ir, annotatedResets, domains, dfs>>

InferDone ==
  /\ pc = "inferResets" /\ idx > Len(resetMap.nets)
  /\ pc' = "updateResets" /\ idx' = 1
  /\ UNCHANGED <<resetMap, ndebug, calls, circuit, ir, diags, signalled,
                 annotatedResets, domains, dfs, ran>>

\* One iteration of the loop of updateResets.
UpdateReset ==
  /\ pc = "updateResets" /\ idx <= Len(resetMap.nets)
  /\ ir' = updateResetNet(ir, resetMap, resetMap.nets[idx])
  /\ idx' = idx + 1
  /\ ran' = ran \cup {"updateReset"}
  /\ UNCHANGED <<resetMap, ndebug, calls, circuit, pc, diags, signalled,
                 annotatedResets, domains, dfs>>

UpdateDone ==
  /\ pc = "updateResets" /\ idx > Len(resetMap.nets)
  /\ pc' = "collectAnnos" /\ idx' = 1
  /\ UNCHANGED <<resetMap, ndebug, calls, circuit, ir, diags, signalled,
                 annotatedResets, domains, dfs, ran>>

\* The first call of buildDomains(FModuleOp): the top module, empty path, no
\* parent reset.
TopFrame(I) == <<[module |-> I.top, path |-> <<>>, parentReset |-> NullValue]>>

\* One callback of the walk of collectAnnos(CircuitOp). A failure of the
\* module interrupts the walk; collectAnnos(CircuitOp) then returns
\* success() like it does after a complete walk.
CollectAnnos ==
  /\ pc = "collectAnnos" /\ idx <= Len(ir.modules)
  /\ LET mod == ir.modules[idx]
         r == collectAnnosModule(ir, mod)
     IN /\ ir' = r.ir
        /\ diags' = diags \o r.diags
        /\ annotatedResets' = IF r.entry THEN (mod :> r.reset) @@ annotatedResets
                              ELSE annotatedResets
        /\ IF r.ok THEN idx' = idx + 1 /\ UNCHANGED <<pc, dfs>>
           ELSE pc' = "buildDomains" /\ idx' = 1 /\ dfs' = TopFrame(ir)
  /\ ran' = ran \cup {"collectAnnos"}
  /\ UNCHANGED <<resetMap, ndebug, calls, circuit, signalled, domains>>

CollectDone ==
  /\ pc = "collectAnnos" /\ idx > Len(ir.modules)
  /\ pc' = "buildDomains" /\ idx' = 1 /\ dfs' = TopFrame(ir)
  /\ UNCHANGED <<resetMap, ndebug, calls, circuit, ir, diags, signalled,
                 annotatedResets, domains, ran>>

\* One call of buildDomains(FModuleOp): the calls it makes for the child
\* instances are run before the calls still pending.
BuildDomains ==
  /\ pc = "buildDomains" /\ dfs # <<>>
  /\ LET frame == Head(dfs)
         domain == assembleDomain(annotatedResets, frame.module, frame.parentReset)
     IN /\ domains' = recordDomain(domains, frame.module, domain, frame.path)
        /\ dfs' = childFrames(ir, frame.module, frame.path, domain.reset) \o Tail(dfs)
  /\ ran' = ran \cup {"buildDomains"}
  /\ UNCHANGED <<resetMap, ndebug, calls, circuit, ir, pc, idx, diags,
                 signalled, annotatedResets>>

\* The report loop of buildDomains(CircuitOp) and its result.
BuildReport ==
  /\ pc = "buildDomains" /\ dfs = <<>>
  /\ LET bad == domainConflicts(ir, domains)
     IN /\ diags' = diags \o
                      [i \in 1..Len(bad) |->
                         Diag("instantiated in different reset domains",
                              ir.modLoc[bad[i]])]
        /\ IF bad # <<>>
           THEN signalled' = TRUE /\ pc' = "return"
           ELSE pc' = "determineImpl" /\ UNCHANGED signalled
  /\ idx' = 1
  /\ UNCHANGED <<resetMap, ndebug, calls, circuit, ir, annotatedResets,
                 domains, dfs, ran>>

\* One iteration of the loop of determineImpl().
DetermineImpl ==
  /\ pc = "determineImpl" /\ idx <= Len(domains.order)
  /\ LET mod == domains.order[idx]
     IN domains' = setLastDomain(domains, mod,
                     determineImplModule(ir, mod, lastDomain(domains, mod)))
  /\ idx' = idx + 1
  /\ ran' = ran \cup {"determineImpl"}
  /\ UNCHANGED <<resetMap, ndebug, calls, circuit, ir, pc, diags, signalled,
                 annotatedResets, dfs>>

DetermineDone ==
  /\ pc = "determineImpl" /\ idx > Len(domains.order)
  /\ pc' = "implementAsyncReset" /\ idx' = 1
  /\ UNCHANGED <<resetMap, ndebug, calls, circuit, ir, diags, signalled,
                 annotatedResets, domains, dfs, ran>>

\* One iteration of the loop of implementAsyncReset().
ImplementAsyncReset ==
  /\ pc = "implementAsyncReset" /\ idx <= Len(domains.order)
  /\ ir' = implementModule(ir, domains, domains.order[idx])
  /\ idx' = idx + 1
  /\ ran' = ran \cup {"implementAsyncReset"}
  /\ UNCHANGED <<resetMap, ndebug, calls, circuit, pc, diags, signalled,
                 annotatedResets, domains, dfs>>

ImplementDone ==
  /\ pc = "implementAsyncReset" /\ idx > Len(domains.order)
  /\ pc' = "return"
  /\ UNCHANGED <<resetMap, ndebug, calls, circuit, ir, idx, diags, signalled,
                 annotatedResets, domains, dfs, ran>>

\* The tail of runOnOperation, after runOnOperationInner has returned.
RunOnOperationEnd ==
  /\ pc = "return"
  /\ resetMap' = EmptyMap
  /\ annotatedResets' = <<>>
  /\ domains' = EmptyDomains
  /\ pc' = "done"
  /\ UNCHANGED <<ndebug, calls, circuit, ir, idx, diags, signalled, dfs, ran>>

Next ==
  \/ TraceResets
  \/ InferReset
  \/ InferDone
  \/ UpdateReset
  \/ UpdateDone
  \/ CollectAnnos
  \/ CollectDone
  \/ BuildDomains
  \/ BuildReport
  \/ DetermineImpl
  \/ DetermineDone
  \/ ImplementAsyncReset
  \/ ImplementDone
  \/ RunOnOperationEnd

Spec == Init /\ [][Next]_vars

\* ------------------------------------------------------ claims on the pass

\* runOnOperationInner has returned (and the maps may have been cleared).
Returned == pc \in {"return", "done"}

\* C4: once trace, infer and update have completed successfully, no value
\* of the IR has a type that contains the abstract reset type.
C4_TypeRewriteClosure ==
  (pc = "collectAnnos" /\ ~signalled) =>
    \A v \in DOMAIN ir.valType : ~containsReset(ir.valType[v])

\* The errors collectAnnos(FModuleOp) emits.
CollectMessages ==
  {"'FullAsyncResetAnnotation' cannot target module",
   "'IgnoreFullAsyncResetAnnotation' cannot target port",
   "'IgnoreFullAsyncResetAnnotation' cannot target wire/node",
   "reset annotations must target module, port, or wire/node",
   "multiple reset annotations on module"}

CollectFailed == \E i \in 1..Len(diags) : diags[i].msg \in CollectMessages

\* C5: when annotation collection has failed for a module, the pass has
\* signalled failure by the time it returns, and none of domain
\* construction, planning and materialization has run.
C5_CollectFailureStops ==
  (Returned /\ CollectFailed) =>
    /\ signalled
    /\ ran \cap {"buildDomains", "determineImpl", "implementAsyncReset"} = {}

\* Materialization has run to its end in an invocation without any error.
Materialized ==
  pc = "return" /\ "implementAsyncReset" \in ran /\ ~signalled /\ diags = <<>>

\* The module has a domain whose reset is set.
hasDomainReset(mod) ==
  mod \in DOMAIN domains.entries /\ lastDomain(domains, mod).reset # NullValue

\* C6: after materialization, every register that was reset-less in a
\* module whose domain has a reset is gone, and a reset register with a
\* reset signal of async reset type stands in its place.
C6_RegRewriteClosure ==
  Materialized =>
    \A mod \in Range(circuit.modules) : hasDomainReset(mod) =>
      \A o \in Range(circuit.body[mod]) : circuit.ops[o].kind = "reg" =>
        /\ o \notin Range(ir.body[mod])
        /\ \E n \in Range(ir.body[mod]) :
             /\ ir.ops[n].kind = "regreset"
             /\ ir.ops[n].results = circuit.ops[o].results
             /\ isAsyncTy(ir.valType[ir.ops[n].operands[2]])

\* C7: when domain construction has succeeded and planning has run, every
\* module of the circuit that is not marked Ignore has exactly one entry in
\* the domain table.
C7_DomainUniqueness ==
  (pc = "implementAsyncReset" /\ diags = <<>>) =>
    \A mod \in Range(circuit.modules) :
      ~hasAnno(circuit.modAnnos[mod], ignoreAnno) =>
        mod \in DOMAIN domains.entries /\ Len(domains.entries[mod]) = 1

\* Every way the top module reaches a module through instances: the module
\* and the instance path to it.
RECURSIVE VisitsFrom(_, _, _)
VisitsFrom(I, mod, path) ==
  {[module |-> mod, path |-> path]} \cup
  UNION {VisitsFrom(I, I.ops[o].attr, Append(path, o)) :
           o \in Range(instancesOf(I, mod))}

\* The (is_top, reset) pair of the module at the end of the first k
\* instances of a path: the module's own annotation entry if it has one, the
\* reset of the module before it otherwise.
RECURSIVE DomainAlong(_, _, _, _)
DomainAlong(I, annotated, path, k) ==
  LET mod == IF k = 0 THEN I.top ELSE I.ops[path[k]].attr
  IN IF mod \in DOMAIN annotated THEN <<TRUE, annotated[mod]>>
     ELSE IF k = 0 THEN <<FALSE, NullValue>>
     ELSE <<FALSE, DomainAlong(I, annotated, path, k - 1)[2]>>

\* The distinct domains a module is reached in.
DomainsOf(mod) ==
  {DomainAlong(circuit, annotatedResets, v.path, Len(v.path)) :
     v \in {w \in VisitsFrom(circuit, circuit.top, <<>>) : w.module = mod}}

EntriesOf(mod) ==
  IF mod \in DOMAIN domains.entries THEN domains.entries[mod] ELSE <<>>

\* buildDomains(CircuitOp) has returned and the domain table is still there.
DomainsBuilt ==
  \/ pc \in {"determineImpl", "implementAsyncReset"}
  \/ pc = "return" /\ "buildDomains" \in ran

BuildFailed ==
  \E i \in 1..Len(diags) : diags[i].msg = "instantiated in different reset domains"

\* C8: a module has one domain entry per distinct (is_top, reset) it is
\* reached in, also when buildDomains fails; buildDomains fails exactly when
\* some module is reached in more than one, and then the pass has signalled
\* failure and neither planning nor materialization runs.
C8_DomainConflicts ==
  /\ DomainsBuilt =>
       /\ \A mod \in Range(circuit.modules) :
            /\ Len(EntriesOf(mod)) = Cardinality(DomainsOf(mod))
            /\ {<<EntriesOf(mod)[i].domain.isTop, EntriesOf(mod)[i].domain.reset>> :
                  i \in 1..Len(EntriesOf(mod))} = DomainsOf(mod)
       /\ BuildFailed <=>
            \E mod \in Range(circuit.modules) : Cardinality(DomainsOf(mod)) > 1
  /\ BuildFailed =>
       /\ signalled /\ Returned
       /\ ran \cap {"determineImpl", "implementAsyncReset"} = {}

\* C8 witness: buildDomains has failed on a module with two entries while
\* another module, reached twice or not, has a single one.
C8_Witness ==
  /\ pc = "return" /\ BuildFailed
  /\ \E mod \in Range(circuit.modules) : Len(EntriesOf(mod)) = 2
  /\ \E mod \in Range(circuit.modules) : Len(EntriesOf(mod)) = 1

\* The value a connect destination projects out of the original reset
\* value: the reset value itself for the register, and for a subfield of the
\* register the same subfield of the reset value.
isProjectedResetValue(v, dst, reg, resetValue) ==
  IF dst = reg THEN v = resetValue
  ELSE /\ defKind(ir, v) = "subfield"
       /\ ir.ops[getDefiningOp(ir, v)].operands = <<resetValue>>
       /\ ir.ops[getDefiningOp(ir, v)].attr = circuit.ops[getDefiningOp(circuit, dst)].attr

\* v is the result of an op the pass has created, of the kind that roots
\* the zero of v's type.
isNewZero(v) ==
  /\ getDefiningOp(ir, v) > Len(circuit.ops)
  /\ defKind(ir, v) = zeroKind(ir.valType[v])

\* The destinations that are the register or a projection of it.
projectionsOf(reg) ==
  {reg} \cup {circuit.ops[o].results[1] :
                o \in {q \in DOMAIN circuit.ops :
                         /\ circuit.ops[q].kind = "subfield"
                         /\ circuit.ops[q].operands[1] = reg}}

\* C9: after materialization in a module with a domain reset, a register
\* that had a sync reset is reset by another signal to a zero, and every
\* connect to it or to a projection of it has as source one mux of the
\* original reset signal, the projected original reset value and the
\* previous source.
C9_SyncFold ==
  Materialized =>
    \A mod \in Range(circuit.modules) : hasDomainReset(mod) =>
      \A o \in Range(circuit.body[mod]) :
        (circuit.ops[o].kind = "regreset"
           /\ ~isAsyncTy(circuit.valType[circuit.ops[o].operands[2]])) =>
          LET old == circuit.ops[o]
              reg == old.results[1]
          IN /\ ir.ops[o].operands[2] = lastDomain(domains, mod).existingValue
                  \/ ir.ops[o].operands[2] = ir.ports[mod][1].v
             /\ isNewZero(ir.ops[o].operands[3])
             /\ \A c \in Range(circuit.body[mod]) :
                  (circuit.ops[c].kind = "connect"
                     /\ circuit.ops[c].operands[1] \in projectionsOf(reg)) =>
                    LET src == ir.ops[c].operands[2]
                        mux == ir.ops[getDefiningOp(ir, src)]
                    IN /\ defKind(ir, src) = "mux"
                       /\ mux.operands[1] = old.operands[2]
                       /\ isProjectedResetValue(mux.operands[2],
                            circuit.ops[c].operands[1], reg, old.operands[3])
                       /\ mux.operands[3] = circuit.ops[c].operands[2]

\* The errors inferReset emits.
InferMessages ==
  {"reset network drives a non-reset type",
   "reset network driven with non-reset type",
   "reset network never driven with concrete type",
   "reset network simultaneously connected to async and sync resets"}

InferFailed == \E i \in 1..Len(diags) : diags[i].msg \in InferMessages

\* C10: when inferReset has failed for a net, the pass returns with failure
\* signalled, the IR is the one it was given (no value type, no module
\* signature changed), and type rewrite, annotation collection, domain
\* construction, planning and materialization have not run.
C10_InferFailureStops ==
  InferFailed =>
    /\ signalled /\ Returned
    /\ ir = circuit
    /\ ran \cap {"updateReset", "collectAnnos", "buildDomains", "determineImpl",
                 "implementAsyncReset"} = {}

\* C10 witness: inference has failed on a net after another net was
\* inferred, in a circuit with abstract reset types left to rewrite.
C10_Witness ==
  /\ pc = "return" /\ InferFailed /\ idx > 1
  /\ \E n \in Range(resetMap.nets) : resetMap.net[n].kind # "Uninferred"
  /\ \E v \in DOMAIN ir.valType : containsReset(ir.valType[v])

\* ------------------------------------------------- claims on inferReset

\* inferReset is about to run on the net at position idx of the live nets.
Inferring == pc = "inferResets" /\ idx <= Len(resetMap.nets)

\* The number of the net inferReset runs on, and the net.
CurNetId == resetMap.nets[idx]
CurNet == resetMap.net[CurNetId]

\* The types of the nodes of a net.
typeOfNode(f) == resetMap.nodes[f].type
allResetTypes(net) == \A f \in Range(net.nodes) : isResetType(typeOfNode(f))
hasAsyncNode(net) == \E f \in Range(net.nodes) : isAsyncTy(typeOfNode(f))
hasUIntNode(net) == \E f \in Range(net.nodes) : isUIntTy(typeOfNode(f))
hasInvalidNode(net) ==
  \E f \in Range(net.nodes) :
    isResetTy(typeOfNode(f)) /\ defKind(ir, f[1]) = "invalid"

\* The step has emitted exactly one more error, with one of the messages,
\* has signalled failure and has made runOnOperationInner return, and the
\* net it ran on is still Uninferred.
FailsWith(msgs) ==
  /\ Len(diags') = Len(diags) + 1
  /\ diags'[Len(diags')].msg \in msgs
  /\ signalled' /\ pc' = "return"
  /\ resetMap'.net[CurNetId].kind = "Uninferred"

\* C11: on a net whose nodes all have reset types, with at least one vote
\* and not both async and sync votes, inferReset succeeds (the loop goes on
\* to the next net, no error) and the kind is Async if a node is
\* async-reset-typed and Sync otherwise.
C11_InferKind ==
  [][(/\ Inferring
      /\ allResetTypes(CurNet)
      /\ hasAsyncNode(CurNet) \/ hasUIntNode(CurNet) \/ hasInvalidNode(CurNet)
      /\ ~(hasAsyncNode(CurNet) /\ hasUIntNode(CurNet)))
     => /\ pc' = "inferResets" /\ idx' = idx + 1
        /\ diags' = diags /\ ~signalled'
        /\ resetMap'.net[CurNetId].kind =
             IF hasAsyncNode(CurNet) THEN "Async" ELSE "Sync"]_vars

\* C11 witness: among the nets inferred so far one got Async, and one whose
\* nodes are all of abstract reset type (its votes come from invalid-value
\* ops only) got Sync.
C11_Witness ==
  /\ pc = "inferResets" /\ idx > 2
  /\ \E i \in 1..(idx - 1) : resetMap.net[resetMap.nets[i]].kind = "Async"
  /\ \E i \in 1..(idx - 1) :
       LET net == resetMap.net[resetMap.nets[i]]
       IN /\ net.kind = "Sync" /\ net.nodes # <<>>
          /\ \A f \in Range(net.nodes) : isResetTy(typeOfNode(f))

MixedMessage == "reset network simultaneously connected to async and sync resets"

\* C12 as stated: a net with an async-reset-typed node and a uint-typed
\* node makes inferReset fail with the 'simultaneously connected' error and
\* stays Uninferred.
C12_MixedFails ==
  [][(Inferring /\ hasAsyncNode(CurNet) /\ hasUIntNode(CurNet))
     => FailsWith({MixedMessage})]_vars

\* C12 amended: the same for a net all of whose nodes have reset types.
C12_MixedFailsAmended ==
  [][(Inferring /\ allResetTypes(CurNet)
        /\ hasAsyncNode(CurNet) /\ hasUIntNode(CurNet))
     => FailsWith({MixedMessage})]_vars

\* C12 witness: inference has failed with the error on a net with more
\* nodes of one kind than of the other.
C12_Witness ==
  /\ pc = "return" /\ diags # <<>> /\ diags[Len(diags)].msg = MixedMessage
  /\ idx <= Len(resetMap.nets)
  /\ allResetTypes(CurNet)
  /\ Cardinality({f \in Range(CurNet.nodes) : isAsyncTy(typeOfNode(f))})
       # Cardinality({f \in Range(CurNet.nodes) : isUIntTy(typeOfNode(f))})

\* The number of drives of a net that target a node, and the nodes that no
\* node undercuts in it.
drivesInto(net, f) == Cardinality({i \in 1..Len(net.drives) : net.drives[i].dst = f})
leastDriven(net) ==
  {f \in Range(net.nodes) :
     \A g \in Range(net.nodes) : drivesInto(net, f) <= drivesInto(net, g)}

\* C13: a net no node of which is async-reset-typed, uint-typed or defined
\* by an invalid-value op makes inferReset fail with the 'never driven'
\* error, located at a node of the net with the least drives into it, and
\* stays Uninferred.
C13_UndrivenFails ==
  [][(Inferring /\ ~hasAsyncNode(CurNet) /\ ~hasUIntNode(CurNet)
        /\ ~hasInvalidNode(CurNet))
     => /\ FailsWith({"reset network never driven with concrete type"})
        /\ diags'[Len(diags')].loc \in
             {valueLoc(ir, f[1]) : f \in leastDriven(CurNet)}]_vars

NonResetMessages ==
  {"reset network drives a non-reset type",
   "reset network driven with non-reset type"}

\* C14: a net with a node whose type is no reset type makes inferReset fail
\* with an error located at a drive that has such a node as destination or
\* as source, and stays Uninferred, whatever the other nodes vote.
C14_NonResetFails ==
  [][(Inferring /\ ~allResetTypes(CurNet))
     => /\ FailsWith(NonResetMessages)
        /\ \E i \in 1..Len(CurNet.drives) :
             /\ CurNet.drives[i].loc = diags'[Len(diags')].loc
             /\ \/ ~isResetType(typeOfNode(CurNet.drives[i].dst))
                \/ ~isResetType(typeOfNode(CurNet.drives[i].src))]_vars

\* C14 witness: inference has failed with the error on a net that also has
\* an async-reset-typed node and a UInt<1> node.
C14_Witness ==
  /\ pc = "return" /\ diags # <<>> /\ diags[Len(diags)].msg \in NonResetMessages
  /\ idx <= Len(resetMap.nets)
  /\ hasAsyncNode(CurNet)
  /\ \E f \in Range(CurNet.nodes) : typeOfNode(f) = UInt1Ty

\* ------------------------------------------------- claims on collectAnnos

\* collectAnnos(FModuleOp) is about to run on the module at position idx.
Collecting == pc = "collectAnnos" /\ idx <= Len(ir.modules)
CurModule == ir.modules[idx]

\* The ops of a module that are wires or nodes, and the others.
wiresAndNodes(I, mod) == {o \in Range(I.body[mod]) : I.ops[o].kind \in {"wire", "node"}}
otherOps(I, mod) == Range(I.body[mod]) \ wiresAndNodes(I, mod)

\* The reset designations of a module: Ignore on the module, FullAsyncReset
\* on a port, FullAsyncReset on a wire or node.
designations(I, mod) ==
  (IF hasAnno(I.modAnnos[mod], ignoreAnno) THEN 1 ELSE 0)
  + Cardinality({i \in 1..Len(I.ports[mod]) : hasAnno(I.ports[mod][i].annos, resetAnno)})
  + Cardinality({o \in wiresAndNodes(I, mod) : hasAnno(I.ops[o].annos, resetAnno)})

\* A reset annotation of the module sits where it may not.
misplaced(I, mod) ==
  \/ hasAnno(I.modAnnos[mod], resetAnno)
  \/ \E i \in 1..Len(I.ports[mod]) : hasAnno(I.ports[mod][i].annos, ignoreAnno)
  \/ \E o \in wiresAndNodes(I, mod) : hasAnno(I.ops[o].annos, ignoreAnno)
  \/ \E o \in otherOps(I, mod) :
       hasAnno(I.ops[o].annos, resetAnno) \/ hasAnno(I.ops[o].annos, ignoreAnno)

\* collectAnnos(FModuleOp) has failed on the module with one of the
\* messages as its last error: the walk over the modules is interrupted,
\* and nothing is recorded for the module.
CollectFailsWith(msgs) ==
  /\ Len(diags') > Len(diags)
  /\ diags'[Len(diags')].msg \in msgs
  /\ pc' # "collectAnnos"
  /\ CurModule \notin DOMAIN annotatedResets'

\* C15: on a module with more than one reset designation (Ignore on the
\* module, FullAsyncReset on ports, wires or nodes) and no misplaced
\* annotation, collectAnnos fails with the 'multiple reset annotations'
\* error and records no annotated reset for the module.
C15_MultipleDesignations ==
  [][(Collecting /\ designations(ir, CurModule) > 1 /\ ~misplaced(ir, CurModule))
     => CollectFailsWith({"multiple reset annotations on module"})]_vars

MisplacedMessages ==
  {"'FullAsyncResetAnnotation' cannot target module",
   "'IgnoreFullAsyncResetAnnotation' cannot target port",
   "'IgnoreFullAsyncResetAnnotation' cannot target wire/node",
   "reset annotations must target module, port, or wire/node"}

\* C16: on a module with FullAsyncReset on the module itself, Ignore on a
\* port or on a wire or node, or either annotation on an op that is neither
\* wire nor node, collectAnnos fails with an error about the placement and
\* records no annotated reset for the module.
C16_MisplacedAnnotations ==
  [][(Collecting /\ misplaced(ir, CurModule))
     => CollectFailsWith(MisplacedMessages)]_vars

\* C16 witness: collectAnnos has failed on a circuit whose only reset
\* annotation sat on a register, nothing is recorded.
C16_Witness ==
  /\ pc = "buildDomains" /\ "collectAnnos" \in ran
  /\ circuit \in AnnoCircuits
  /\ designations(circuit, "Top") = 0
  /\ ~hasAnno(circuit.modAnnos["Top"], resetAnno)
  /\ \A i \in 1..3 : circuit.ports["Top"][i].annos = <<>>
  /\ circuit.ops[1].annos = <<>>
  /\ circuit.ops[2].annos # <<>>
  /\ diags # <<>>
  /\ diags[Len(diags)].msg = "reset annotations must target module, port, or wire/node"
  /\ annotatedResets = <<>>

\* ------------------------------------------------- claims on determineImpl

\* determineImpl() has run over all modules of the domain table, and the
\* table has not been cleared yet.
Planned == pc \in {"implementAsyncReset", "return"} /\ "determineImpl" \in ran

\* The modules planning has handled, and the domain it has planned for one.
plannedModules == DOMAIN domains.entries
planOf(mod) == lastDomain(domains, mod)

\* The ports the module had when planning ran: materialization only adds
\* ports, in front.
portsBefore(mod) == circuit.ports[mod]
portNamesBefore(mod) == {portsBefore(mod)[i].name : i \in 1..Len(portsBefore(mod))}

\* The ports of the module that have the name of the reset of its domain,
\* and those among them of the type of the reset.
sameNamedPorts(mod) ==
  {i \in 1..Len(portsBefore(mod)) :
     portsBefore(mod)[i].name = getResetName(ir, planOf(mod).reset)}
reusablePorts(mod) ==
  {i \in sameNamedPorts(mod) :
     ir.valType[portsBefore(mod)[i].v] = ir.valType[planOf(mod).reset]}

\* The instance ops of the circuit that instantiate the module.
liveInstancesOf(mod) ==
  {o \in UNION {Range(ir.body[m]) : m \in DOMAIN ir.body} :
     ir.ops[o].kind = "instance" /\ ir.ops[o].attr = mod}

\* The module is not the root of its domain, its domain has a reset, and
\* the module has a port with the name and the type of the reset.
canReusePort(mod) ==
  /\ planOf(mod).reset # NullValue /\ ~planOf(mod).isTop
  /\ reusablePorts(mod) # {}

C18_UniquePortName ==
  Planned =>
    \A mod \in plannedModules : planOf(mod).newPortName # "" =>
      LET name == getResetName(ir, planOf(mod).reset)
          suffixed(n) == name \o "_" \o ToString(n)
      IN /\ planOf(mod).newPortName \notin portNamesBefore(mod)
         /\ sameNamedPorts(mod) # {} =>
              \E n \in 0..Len(portsBefore(mod)) :
                /\ planOf(mod).newPortName = suffixed(n)
                /\ \A k \in 0..(n - 1) : suffixed(k) \in portNamesBefore(mod)

\* C18 witness: planning has recorded rst_1 for a module that has the ports
\* rst and rst_0, and rst_0 for one that has the port rst only.
C18_Witness ==
  /\ Planned
  /\ \E mod \in plannedModules :
       /\ planOf(mod).newPortName = "rst_1"
       /\ {"rst", "rst_0"} \subseteq portNamesBefore(mod)
  /\ \E mod \in plannedModules :
       /\ planOf(mod).newPortName = "rst_0"
       /\ "rst" \in portNamesBefore(mod)

\* --------------------------------------------- scenario "uniform sync"

\* The values and ops of a uniform-sync circuit: the reset ports of Top and
\* Child, the register of Child and its result.
TopRst == circuit.ports["Top"][2].v
ChildRst == circuit.ports["Child"][2].v
ChildReg == circuit.body["Child"][1]
ChildRegValue == circuit.ops[ChildReg].results[1]

\* runOnOperationInner has returned, or the pass has crashed, on a
\* uniform-sync circuit.
UniformSyncDone == pc \in {"return", "crashed"} /\ circuit \in UniformSyncCircuits

\* The reset ports are of type UInt<1>.
portsAreSync == ir.valType[TopRst] = UInt1Ty /\ ir.valType[ChildRst] = UInt1Ty

\* The register is gone, and a reset register on the reset port of the
\* child, reset to a new constant zero, has its result.
regReplaced ==
  /\ ChildReg \notin Range(ir.body["Child"])
  /\ \E n \in Range(ir.body["Child"]) :
       /\ ir.ops[n].kind = "regreset"
       /\ ir.ops[n].results = <<ChildRegValue>>
       /\ ir.ops[n].operands[2] = ChildRst
       /\ isNewZero(ir.ops[n].operands[3])
       /\ defKind(ir, ir.ops[n].operands[3]) = "constant"

\* No module has got a port, no instance a result.
noPortAdded ==
  /\ \A mod \in Range(circuit.modules) : Len(ir.ports[mod]) = Len(circuit.ports[mod])
  /\ \A o \in DOMAIN ir.ops : ir.ops[o].kind = "instance" => Len(ir.ops[o].results) = 2

\* C19: after the pass on a circuit whose top module has an
\* abstract reset port driven by a UInt<1> source, handed by an instance to
\* a register without reset, the port is of type UInt<1>, a reset register
\* on that port with a constant zero as reset value has replaced the
\* register, and no port has been added.
C19_UniformSync ==
  UniformSyncDone =>
    /\ pc = "return" /\ ~signalled /\ diags = <<>>
    /\ portsAreSync /\ regReplaced /\ noPortAdded

\* ------------------------------------------------- claims on buildDomains

\* The entry collectAnnos has recorded for the module, if any, is a
\* FullAsyncReset designation, or is Ignore (the null value).
recordedDesignation(mod) ==
  mod \in DOMAIN annotatedResets /\ annotatedResets[mod] # NullValue
recordedIgnore(mod) ==
  mod \in DOMAIN annotatedResets /\ annotatedResets[mod] = NullValue

\* The domains recorded for a module.
domainsRecorded(mod) ==
  {domains.entries[mod][i].domain : i \in 1..Len(domains.entries[mod])}

\* C20 as stated: a domain recorded for a module has isTop set if and only
\* if a FullAsyncReset designation is recorded for the module, and a domain
\* recorded for a module annotated with Ignore has no reset and isTop
\* unset.
C20_IsTopIffDesignated ==
  \A mod \in DOMAIN domains.entries : \A domain \in domainsRecorded(mod) :
    /\ domain.isTop <=> recordedDesignation(mod)
    /\ recordedIgnore(mod) => domain.reset = NullValue /\ ~domain.isTop

\* C20 amended: a domain recorded for a module has isTop set if and only if
\* an annotation entry is recorded for the module, a FullAsyncReset
\* designation or Ignore; a domain recorded for a module annotated with
\* Ignore has no reset and isTop set.
C20_IsTopIffAnnotated ==
  \A mod \in DOMAIN domains.entries : \A domain \in domainsRecorded(mod) :
    /\ domain.isTop <=> (recordedDesignation(mod) \/ recordedIgnore(mod))
    /\ recordedIgnore(mod) => domain.reset = NullValue /\ domain.isTop

\* C20 witness: domains are recorded for a module with a designation, for a
\* module with Ignore, and for a module without entry that inherits a reset.
C20_Witness ==
  /\ \E mod \in DOMAIN domains.entries :
       recordedDesignation(mod) /\ \E domain \in domainsRecorded(mod) : domain.isTop
  /\ \E mod \in DOMAIN domains.entries :
       recordedIgnore(mod) /\ \E domain \in domainsRecorded(mod) : domain.isTop
  /\ \E mod \in DOMAIN domains.entries :
       /\ mod \notin DOMAIN annotatedResets
       /\ \E domain \in domainsRecorded(mod) :
            ~domain.isTop /\ domain.reset # NullValue

\* -------------------------------------------- claims on instance paths

\* The module at the end of the first k instances of an instance path.
moduleAt(path, k) == IF k = 0 THEN circuit.top ELSE circuit.ops[path[k]].attr

\* The positions of an instance path whose module has an annotation entry,
\* and the last of them.
annotatedAt(path) ==
  {k \in 0..Len(path) : moduleAt(path, k) \in DOMAIN annotatedResets}
nearestAnnotated(path) ==
  CHOOSE k \in annotatedAt(path) : \A j \in annotatedAt(path) : j <= k

\* The entry of the nearest annotated module of the path is Ignore.
stemsFromIgnore(path) ==
  /\ annotatedAt(path) # {}
  /\ annotatedResets[moduleAt(path, nearestAnnotated(path))] = NullValue

\* The entries of the domain table.
allEntries ==
  UNION {{domains.entries[mod][i] : i \in 1..Len(domains.entries[mod])} :
           mod \in DOMAIN domains.entries}

nearestAnnotation(path) ==
  IF annotatedAt(path) = {} THEN NullValue
  ELSE annotatedResets[moduleAt(path, nearestAnnotated(path))]

\* The visits the pending calls of buildDomains(FModuleOp) stand for: each
\* call visits its module and, through the instances, the instance paths
\* below it.
pendingVisits ==
  UNION {VisitsFrom(ir, dfs[i].module, dfs[i].path) : i \in 1..Len(dfs)}

\* C23: the DFS starts with every instance path of the circuit to be
\* visited; each call of buildDomains(FModuleOp) visits one instance path
\* that is still to be visited and none that has been visited, and records
\* for the module at the end of the path a domain whose reset is the entry
\* of the nearest annotated module on the path, absent if there is none.
C23_NearestAnnotation ==
  [][/\ (pc # "buildDomains" /\ pc' = "buildDomains") =>
          pendingVisits' = VisitsFrom(ir', ir'.top, <<>>)
     /\ (pc = "buildDomains" /\ dfs # <<>>) =>
          LET frame == Head(dfs)
              visit == [module |-> frame.module, path |-> frame.path]
          IN /\ frame.module = moduleAt(frame.path, Len(frame.path))
             /\ visit \in pendingVisits
             /\ pendingVisits' = pendingVisits \ {visit}
             /\ \E i \in 1..Len(domains'.entries[frame.module]) :
                  domains'.entries[frame.module][i].domain.reset =
                    nearestAnnotation(frame.path)]_vars

\* C23 witness: the DFS is complete on a circuit in which two instance
\* paths reach the same module, and a module has inherited the reset of an
\* annotated ancestor.
C23_Witness ==
  /\ pc = "buildDomains" /\ dfs = <<>> /\ "buildDomains" \in ran
  /\ \E v, w \in VisitsFrom(circuit, circuit.top, <<>>) :
       v.module = w.module /\ v.path # w.path
  /\ \E e \in allEntries :
       /\ e.domain.reset # NullValue
       /\ nearestAnnotated(e.path) < Len(e.path)

\* ------------------------------------------------ claims on aggregates

\* The field reference a value stands for: the root value that a chain of
\* subfield, subindex and subaccess ops projects from, with the field ids of
\* the projections added up; subindex and subaccess count as element 0.
RECURSIVE rootFieldRef(_, _)
rootFieldRef(I, v) ==
  LET op == I.ops[getDefiningOp(I, v)]
      input == op.operands[1]
      inType == I.valType[input]
      r == rootFieldRef(I, input)
  IN IF isBlockArgument(I, v) \/ defKind(I, v) \notin ProjKinds THEN <<v, 0>>
     ELSE IF op.kind = "subfield"
     THEN <<r[1], r[2] + bundleFieldID(inType, getElementIndex(inType, op.attr))>>
     ELSE <<r[1], r[2] + vectorFieldID(inType, 0)>>

\* The type of the field with the given id within a type.
RECURSIVE typeAtFieldID(_, _)
typeAtFieldID(t, id) ==
  IF id = 0 THEN t
  ELSE IF t.k = "bundle"
  THEN LET index == bundleIndexForFieldID(t, id)
       IN typeAtFieldID(t.e[index].type, id - bundleFieldID(t, index))
  ELSE LET index == vectorIndexForFieldID(t, id)
       IN typeAtFieldID(t.t, id - vectorFieldID(t, index))

\* The operands of the connects of the circuit that are projections of
\* abstract reset type.
projectedOperands ==
  {v \in UNION {Range(circuit.ops[o].operands) :
                  o \in {q \in DOMAIN circuit.ops : circuit.ops[q].kind = "connect"}} :
     /\ ~isBlockArgument(circuit, v) /\ defKind(circuit, v) \in ProjKinds
     /\ isResetTy(circuit.valType[v])}

\* Two field references are nodes of the same net.
sameNet(f, g) ==
  /\ f \in DOMAIN resetMap.nodes /\ g \in DOMAIN resetMap.nodes
  /\ resetMap.nodes[f].net # NullNet
  /\ resetMap.nodes[f].net = resetMap.nodes[g].net

\* Tracing is complete and the map has not been cleared.
Traced == pc \in {"inferResets", "updateResets", "collectAnnos"}

\* The type rewrite is complete without error.
Rewritten == pc = "collectAnnos" /\ ~signalled

\* C22: for a connect operand that is a chain of projections, of any depth,
\* the leaf field of the root of the chain is in the net of the operand once
\* tracing is done, and is of concrete type once the type rewrite is done.
C22_ProjectionChains ==
  \A v \in projectedOperands :
    LET root == rootFieldRef(circuit, v)
    IN /\ Traced => sameNet(root, <<v, 0>>)
       /\ Rewritten => ~isResetTy(typeAtFieldID(ir.valType[root[1]], root[2]))

\* --------------------------------------------------- claims on add, II

\* The number of drives the live nets hold.
RECURSIVE drivesHeld(_, _)
drivesHeld(m, i) ==
  IF i > Len(m.nets) THEN 0
  ELSE Len(m.net[m.nets[i]].drives) + drivesHeld(m, i + 1)

\* The net of a field reference, the null net if it has no node yet.
netOf(f) == IF f \in DOMAIN resetMap.nodes THEN resetMap.nodes[f].net ELSE NullNet

\* C24: after every add call the live nets hold as many drives as add has
\* been called; when the call joins nodes of two distinct nets, the net with
\* more nodes (the destination's on a tie) is live afterwards and holds the
\* nodes of both and the drives of both plus the new one, and the
\* back-pointer of every node of the other net refers to it.
C24_MergeKeepsAll ==
  [][Len(calls') = Len(calls) + 1 =>
       LET dst == calls'[Len(calls')][1]
           src == calls'[Len(calls')][2]
           dn == netOf(dst)
           sn == netOf(src)
           swap == Len(resetMap.net[dn].nodes) < Len(resetMap.net[sn].nodes)
           net == IF swap THEN sn ELSE dn
           other == IF swap THEN dn ELSE sn
           new == [dst |-> dst, src |-> src, loc |-> Len(calls')]
       IN /\ drivesHeld(resetMap', 1) = Len(calls')
          /\ (dn # NullNet /\ sn # NullNet /\ dn # sn) =>
               /\ net \in Range(resetMap'.nets)
               /\ Range(resetMap'.net[net].nodes) = NetNodes(dn) \cup NetNodes(sn)
               /\ Len(resetMap'.net[net].nodes) =
                    Len(resetMap.net[dn].nodes) + Len(resetMap.net[sn].nodes)
               /\ Range(resetMap'.net[net].drives) =
                    Range(resetMap.net[dn].drives) \cup Range(resetMap.net[sn].drives)
                      \cup {new}
               /\ Len(resetMap'.net[net].drives) =
                    Len(resetMap.net[dn].drives) + Len(resetMap.net[sn].drives) + 1
               /\ \A f \in NetNodes(other) : resetMap'.nodes[f].net = net]_vars

\* C24 witness: the third add call has merged the destination's net of one
\* node into the source's net of two nodes.
C24_Witness ==
  /\ Len(calls) = 3 /\ resetMap.unusedNets # <<>>
  /\ \E n \in LiveNets :
       /\ Len(resetMap.net[n].nodes) = 3 /\ Len(resetMap.net[n].drives) = 3
       /\ resetMap.net[n].nodes[3] = calls[3][1]
       /\ resetMap.net[n].nodes[1] \in {calls[1][1], calls[1][2]}
       /\ calls[3][2] \in {calls[1][1], calls[1][2]}

\* The operands of the connects of the circuit.
connectOperands ==
  UNION {Range(circuit.ops[o].operands) :
           o \in {q \in DOMAIN circuit.ops : circuit.ops[q].kind = "connect"}}

\* A value is a vector of abstract resets.
isResetVector(I, v) == I.valType[v].k = "vector" /\ isResetTy(I.valType[v].t)

\* The vectors of abstract resets that a connect of the circuit reaches: as
\* an operand, or as the input of a subindex or subaccess that is an
\* operand.
connectedVectors ==
  {v \in DOMAIN circuit.valType :
     /\ isResetVector(circuit, v)
     /\ \/ v \in connectOperands
        \/ \E p \in connectOperands :
             /\ ~isBlockArgument(circuit, p)
             /\ defKind(circuit, p) \in {"subindex", "subaccess"}
             /\ circuit.ops[getDefiningOp(circuit, p)].operands[1] = v}

\* The drives of the live nets.
allDrives ==
  UNION {Range(resetMap.net[n].drives) : n \in Range(resetMap.nets)}

\* C25: for a vector of abstract resets that a connect reaches through a
\* subindex of any index, through a subaccess or as a whole, the drive is
\* recorded on the field of element 0 of the vector and on no other field
\* of it, and after the type rewrite all elements of the vector have one
\* concrete type.
C25_VectorCollapse ==
  \A v \in connectedVectors :
    /\ Traced =>
         /\ \E d \in allDrives :
              <<v, vectorFieldID(circuit.valType[v], 0)>> \in {d.dst, d.src}
         /\ \A f \in DOMAIN resetMap.nodes :
              f[1] = v => f[2] = vectorFieldID(circuit.valType[v], 0)
    /\ Rewritten =>
         /\ ir.valType[v].k = "vector" /\ ir.valType[v].n = circuit.valType[v].n
         /\ isAsyncTy(ir.valType[v].t) \/ ir.valType[v].t = UInt1Ty

\* ---------------------------------------------------------------- C26
\* The pairs of values the connects of the circuit relate.
connectedValues ==
  {<<circuit.ops[o].operands[1], circuit.ops[o].operands[2]>> :
     o \in {q \in DOMAIN circuit.ops : circuit.ops[q].kind = "connect"}}

\* The results of the subfield ops that select field `name` of value v.
leafValues(v, name) ==
  {o \in projectedOperands :
     /\ circuit.ops[getDefiningOp(circuit, o)].kind = "subfield"
     /\ circuit.ops[getDefiningOp(circuit, o)].operands[1] = v
     /\ circuit.ops[getDefiningOp(circuit, o)].attr = name}

\* The bundles of two abstract resets whose fields a connect reaches.
leafBundles ==
  {v \in DOMAIN circuit.valType :
     /\ circuit.valType[v].k = "bundle"
     /\ Len(circuit.valType[v].e) = 2
     /\ \A k \in 1..2 : circuit.valType[v].e[k].type = ResetTy
     /\ leafValues(v, "r1") # {} /\ leafValues(v, "r2") # {}}

\* C26: the two leaves of one bundle value are distinct field refs, and
\* they share a net only if a drive connects them or one source drives both;
\* when one leaf is driven by an async reset and the other by a UInt<1> and
\* nothing connects them, inference succeeds and the rewritten bundle type
\* has an async-reset leaf and a UInt<1> leaf.
C26_BundleLeaves ==
  \A v \in leafBundles :
    LET t == circuit.valType[v]
        f1 == <<v, bundleFieldID(t, 1)>>
        f2 == <<v, bundleFieldID(t, 2)>>
        linked == \E a \in leafValues(v, "r1"), b \in leafValues(v, "r2") :
                    \/ <<a, b>> \in connectedValues \/ <<b, a>> \in connectedValues
                    \/ \E s \in DOMAIN circuit.valType :
                         <<a, s>> \in connectedValues /\ <<b, s>> \in connectedValues
    IN /\ f1 # f2
       /\ (Traced /\ f1 \in DOMAIN resetMap.nodes /\ f2 \in DOMAIN resetMap.nodes
             /\ sameNet(f1, f2)) => linked
       /\ ~linked =>
            /\ pc \notin {"failed", "crashed"}
            /\ Rewritten =>
                 /\ isAsyncTy(ir.valType[v].e[1].type)
                 /\ ir.valType[v].e[2].type = UInt1Ty

\* ---------------------------------------------------------------- C27
\* updateReset(net) is about to run on a net.
Updating == pc = "updateResets" /\ idx <= Len(resetMap.nets)

\* The net updateReset is about to rewrite.
UpdNet == resetMap.net[resetMap.nets[idx]]

\* The state of the node loop of updateReset(net) after its first k nodes.
rootsAfter(k) ==
  updateRoots([ir |-> ir, worklist |-> <<>>, moduleWorklist |-> {}],
              resetMap, [UpdNet EXCEPT !.nodes = SubSeq(@, 1, k)],
              resetTypeOf(UpdNet.kind), 1)

\* The iterations of the worklist loop from IR I and worklist wl: the op
\* taken, whether the type of its result changed, and whether the list
\* holds anything beyond the rest of the list afterwards.
RECURSIVE worklistLog(_, _)
worklistLog(I, wl) ==
  IF wl = <<>> THEN <<>>
  ELSE LET r == worklistStep(I, wl)
       IN <<[op |-> wl[Len(wl)],
             changed |-> r.ir # I,
             enqueued |-> r.worklist # SubSeq(wl, 1, Len(wl) - 1)]>>
            \o worklistLog(r.ir, r.worklist)

\* The number of operand slots of the ops of the design.
RECURSIVE totalUses(_)
totalUses(i) ==
  IF i > Len(circuit.ops) THEN 0
  ELSE Len(circuit.ops[i].operands) + totalUses(i + 1)

\* The worklist loop ends within as many iterations as the design has
\* uses, and users are enqueued only by an iteration that changed a type.
worklistBounded(after, log) ==
  /\ Len(log) <= totalUses(1)
  /\ \A k \in 1..Len(UpdNet.nodes) :
       after[k + 1].ir = after[k].ir => after[k + 1].worklist = after[k].worklist
  /\ \A j \in 1..Len(log) : log[j].enqueued => log[j].changed

\* The values whose type the iterations of the node loop changed, and the
\* values whose type the iterations of the worklist loop changed.
rootChanged(after) ==
  [k \in 1..Len(UpdNet.nodes) |->
     IF after[k + 1].ir # after[k].ir THEN UpdNet.nodes[k][1] ELSE NullValue]
workChanged(log) ==
  [j \in 1..Len(log) |->
     IF log[j].changed THEN ir.ops[log[j].op].results[1] ELSE NullValue]

\* How often v occurs in a sequence.
occurrences(seq, v) == Cardinality({i \in 1..Len(seq) : seq[i] = v})

\* C27 as stated: the worklist of every net rewrite terminates, users are
\* enqueued only when a type changed, and no value's type changes more than
\* once within one net rewrite.
C27_ChangeOnce ==
  Updating =>
    LET after == [k \in 1..(Len(UpdNet.nodes) + 1) |-> rootsAfter(k - 1)]
        log == worklistLog(after[Len(after)].ir, after[Len(after)].worklist)
        rc == rootChanged(after)
        wc == workChanged(log)
    IN /\ worklistBounded(after, log)
       /\ \A v \in Range(rc) \cup Range(wc) :
            v # NullValue => occurrences(rc, v) + occurrences(wc, v) <= 1

\* C27 amended: the worklist of every net rewrite terminates, users are
\* enqueued only when a type changed, the worklist changes the type of no
\* value more than once, and the node loop changes the type of a port, wire,
\* register or instance result once for each of its fields in the net that
\* does not have the net's type yet.
C27_WorklistTerminates ==
  Updating =>
    LET after == [k \in 1..(Len(UpdNet.nodes) + 1) |-> rootsAfter(k - 1)]
        log == worklistLog(after[Len(after)].ir, after[Len(after)].worklist)
        rc == rootChanged(after)
        wc == workChanged(log)
    IN /\ worklistBounded(after, log)
       /\ \A v \in Range(wc) : v # NullValue => occurrences(wc, v) = 1
       /\ \A k \in 1..Len(UpdNet.nodes) :
            LET v == UpdNet.nodes[k][1]
            IN (rc[k] = v) <=>
                 /\ isRoot(ir, v)
                 /\ typeAtFieldID(ir.valType[v], UpdNet.nodes[k][2])
                      # resetTypeOf(UpdNet.kind)

C27_Witness ==
  /\ Updating
  /\ LET after == [k \in 1..(Len(UpdNet.nodes) + 1) |-> rootsAfter(k - 1)]
         log == worklistLog(after[Len(after)].ir, after[Len(after)].worklist)
         rc == rootChanged(after)
     IN /\ \E v \in Range(rc) : v # NullValue /\ occurrences(rc, v) = 2
        /\ \E j \in 1..Len(log) : log[j].changed
        /\ \E j \in 1..Len(log) : ~log[j].changed

\* ---------------------------------------------------------------- C28
\* The instance ops in the bodies of the modules of IR I.
instanceOps(I) ==
  {o \in UNION {Range(I.body[mod]) : mod \in Range(I.modules)} :
     I.ops[o].kind = "instance"}

\* The instance op of the input that an instance op of the output stands
\* for: the one of the same name and target.
inputInstance(o) ==
  CHOOSE q \in instanceOps(circuit) :
    circuit.ops[q].name = ir.ops[o].name /\ circuit.ops[q].attr = ir.ops[o].attr

\* The module received a new port.
gotNewPort(mod) == Len(ir.ports[mod]) > Len(circuit.ports[mod])

\* C28: after materialization every instance op has as many results as
\* the instantiated module has ports, and an instance of a module that
\* received a reset port has one new result at index 0, in front of its
\* former results.
C28_InstanceResults ==
  Materialized =>
    \A o \in instanceOps(ir) :
      LET target == ir.ops[o].attr
          before == circuit.ops[inputInstance(o)].results
      IN /\ Len(ir.ops[o].results) = Len(ir.ports[target])
         /\ IF gotNewPort(target)
            THEN /\ Tail(ir.ops[o].results) = before
                 /\ Head(ir.ops[o].results) \notin DOMAIN circuit.valType
            ELSE ir.ops[o].results = before

\* ---------------------------------------------------------------- C29
\* The connects that materialization appended to the body of a module.
resetConnects(mod) ==
  {o \in Range(ir.body[mod]) :
     o \notin DOMAIN circuit.ops /\ ir.ops[o].kind = "connect"
       /\ ir.ops[o].attr = "reset"}

\* The instance op of module mod that has value v among its results.
instanceOf(mod, v) ==
  {o \in Range(ir.body[mod]) :
     ir.ops[o].kind = "instance" /\ v \in Range(ir.ops[o].results)}

\* The module is the root of a reset domain through an annotated port.
rootedAtPort(mod) ==
  /\ mod \in DOMAIN annotatedResets
  /\ annotatedResets[mod] # NullValue
  /\ isBlockArgument(circuit, annotatedResets[mod])

\* C29: every reset connect that materialization appends to a module
\* drives a result of an instance whose module has the domain reset of
\* that module; an instance of a module that is the root of its own domain
\* through an annotated port is not driven.
C29_ResetConnects ==
  Materialized =>
    \A mod \in Range(ir.modules) : \A c \in resetConnects(mod) :
      /\ instanceOf(mod, ir.ops[c].operands[1]) # {}
      /\ \A i \in instanceOf(mod, ir.ops[c].operands[1]) :
           LET child == ir.ops[i].attr
           IN /\ hasDomainReset(mod) /\ hasDomainReset(child)
              /\ lastDomain(domains, child).reset = lastDomain(domains, mod).reset
              /\ ~rootedAtPort(child)

\* ---------------------------------------------------------------- C30
\* The nodes of a net that are module ports of abstract reset type.
abstractPorts(net) ==
  {f \in Range(net.nodes) :
     isBlockArgument(ir, f[1]) /\ isResetTy(typeOfNode(f))}

NeverDrivenMessage == "reset network never driven with concrete type"

====
